---- MODULE Spec2Model ----
(***************************************************************************)
(* blankvm: a minimal KVM hypervisor.  The program is a single host thread *)
(* that parses its command line (main), creates the VM (vm_create), loads  *)
(* the image (vm_load_image), programs the vCPU (vm_prepare_to_boot, with  *)
(* vm_fill_page_table and vm_setup_segment), runs the exit-dispatch loop   *)
(* (vm_run, with vm_dump) and tears everything down (vm_free).             *)
(*                                                                         *)
(* The kernel, the guest and the host's standard streams are the           *)
(* environment: every kernel or host call may fail, the guest chooses each *)
(* VM exit, and the host chooses each input byte or end-of-file.           *)
(*                                                                         *)
(* Values wider than the checker's integers (entry point, rip, segment     *)
(* base and limit) are held as four 16-bit limbs, least significant first; *)
(* control registers whose bits are OR-ed in are held as sets of bit       *)
(* positions.  mem_size, page-table addresses and cr3 stay integers, which *)
(* the bounds on the memory size keep in range.                            *)
(***************************************************************************)
EXTENDS Integers, Sequences, FiniteSets, TLC

VARIABLES
    pc,          \* position of the host thread
    argv,        \* the command line: option tokens and positional arguments
    options,     \* struct vm_options filled by main
    vm,          \* struct vm_state, or "NULL"
    held,        \* resources the process currently holds
    log,         \* kernel and host calls made so far, in order, with outcome
    slots,       \* guest-physical memory slots registered with the kernel
    vcpu,        \* the kernel's vCPU register banks, or "none"
    page_table,  \* contents of the page-table mapping (8-byte entries)
    mem,         \* contents of the RAM mapping: how much of the image it holds
    run,         \* the shared struct kvm_run (exit reason, io, payload byte)
    runs,        \* KVM_RUN invocations so far
    stdin_read,  \* bytes getchar has returned so far
    stdin_eof,   \* getchar has returned EOF
    stdout,      \* bytes written with putchar
    guest_out,   \* bytes the guest put out in serviced OUT exits (history)
    guest_in,    \* bytes the guest received when an IN completed (history)
    stderr,      \* messages written to standard error
    dumps,       \* what each vm_dump printed
    rc           \* return values so far: function name -> value

vars == << pc, argv, options, vm, held, log, slots, vcpu, page_table, mem, run,
           runs, stdin_read, stdin_eof, stdout, guest_out, guest_in, stderr,
           dumps, rc >>

(***************************************************************************)
(* Bounds of the model.                                                    *)
(***************************************************************************)
MaxSteps == 3        \* KVM_RUN invocations explored per execution
MaxInput == 2        \* bytes the host delivers on stdin before end-of-file
MaxMemPages == 4     \* small memory sizes, in pages, tried by the builder

(***************************************************************************)
(* Program constants.                                                      *)
(***************************************************************************)
PAGE_SIZE == 4096
SERIAL_PORT == 1016          \* 0x3F8
KVM_EXIT_IO == 2
KVM_EXIT_HLT == 5
KVM_EXIT_MMIO == 6
KVM_EXIT_SHUTDOWN == 8
EXIT_SUCCESS == 0
EXIT_FAILURE == 1
EOF == -1
DEFAULT_MEM_SIZE == 1024 * 1024

(***************************************************************************)
(* 64-bit values as four 16-bit limbs, least significant first.            *)
(***************************************************************************)
U64(w0, w1, w2, w3) == << w0, w1, w2, w3 >>

U64Zero == U64(0, 0, 0, 0)

RECURSIVE U64LessFrom(_, _, _)
U64LessFrom(a, b, i) ==
    IF i = 0 THEN FALSE
    ELSE IF a[i] # b[i] THEN a[i] < b[i]
    ELSE U64LessFrom(a, b, i - 1)

\* a < b on unsigned 64-bit values
U64Less(a, b) == U64LessFrom(a, b, 4)

\* a >= b on unsigned 64-bit values
U64GE(a, b) == ~U64Less(a, b)

Lo32(n) == U64(n, 0, 0, 0)               \* a value below 2^16

REAL_MODE_LIMIT == U64(0, 1, 0, 0)        \* 0x10000
PROTECTED_MODE_LIMIT == U64(0, 0, 1, 0)   \* 0x100000000ull
U64Max == U64(65535, 65535, 65535, 65535)

(***************************************************************************)
(* The command line.  An option token is what getopt hands to main: the    *)
(* option letter ("?" for an unknown flag or a missing argument) and, for  *)
(* -m, -e and -p, the text of its argument, abstracted to how strtoull     *)
(* treats it and the number it denotes.                                    *)
(***************************************************************************)
Num(v) == [syntax |-> "number", value |-> v]
BadNums == { [syntax |-> s, value |-> 0] : s \in {"empty", "range", "trailing"} }
Flag(c) == << [opt |-> c, arg |-> "none"] >>
Opt(c, s) == << [opt |-> c, arg |-> s] >>

ModeFlags == { Flag("R"), Flag("P"), Flag("L") }

EntryPoints ==
    { U64Zero, U64(65535, 0, 0, 0), REAL_MODE_LIMIT, U64(65535, 65535, 0, 0),
      PROTECTED_MODE_LIMIT, U64Max }

MemSizes == { 0, PAGE_SIZE, PAGE_SIZE + 1 }

GoodCmdLines ==
    { [opts |-> m \o Opt("e", Num(e)), image |-> << "image" >>] :
        m \in ModeFlags, e \in EntryPoints }
    \cup
    { [opts |-> o, image |-> << "image" >>] :
        o \in { << >>, Flag("L") \o Flag("R"), Flag("L"),
                Flag("L") \o Opt("p", Num(0)),
                Flag("L") \o Opt("p", Num(PAGE_SIZE)),
                Flag("P") \o Opt("p", Num(PAGE_SIZE)),
                Opt("p", Num(PAGE_SIZE)) } }
    \cup
    { [opts |-> Flag("L") \o Opt("m", Num(s)), image |-> << "image" >>] :
        s \in MemSizes }

BadCmdLines ==
    { [opts |-> Flag("L") \o Flag("?"), image |-> << "image" >>] }
    \cup
    { [opts |-> Opt(c, s), image |-> << "image" >>] :
        c \in {"m", "e", "p"}, s \in BadNums }
    \cup
    { [opts |-> o, image |-> << >>] :
        o \in { << >>, Flag("L"), Opt("e", Num(REAL_MODE_LIMIT)) } }

CmdLines == GoodCmdLines \cup BadCmdLines

\* command lines that run an image of a guest with a behaviour of its own
GuestCmdLines ==
    { [opts |-> << >>, image |-> << f >>] : f \in {"echo", "exits"} }

\* long-mode command lines over more memory sizes, for the page-table builder:
\* a few pages, sizes that are no multiple of the page size, and sizes around
\* the 512 entries one table frame holds
BuilderMemSizes ==
    { k * PAGE_SIZE : k \in 1..MaxMemPages }
    \cup { 1, PAGE_SIZE - 1, PAGE_SIZE + 1, 2 * PAGE_SIZE + 1, DEFAULT_MEM_SIZE,
           511 * PAGE_SIZE, 512 * PAGE_SIZE, 512 * PAGE_SIZE + 1, 513 * PAGE_SIZE,
           1024 * PAGE_SIZE, 1025 * PAGE_SIZE }

BuilderCmdLines ==
    { [opts |-> Flag("L") \o Opt("m", Num(s)), image |-> << "image" >>] :
        s \in BuilderMemSizes }

\* command lines over the kinds of image file: empty, shorter than memory,
\* longer than memory, a FIFO, and a file above the most one read transfers
LoaderCmdLines ==
    { [opts |-> << >>, image |-> << f >>] : f \in {"empty", "image", "fifo"} }
    \cup
    { [opts |-> Opt("m", Num(100)), image |-> << f >>] : f \in {"image", "fifo"} }
    \cup
    { [opts |-> Opt("m", Num(2147483647)), image |-> << "huge" >>] }

\* a parser that does not look at what follows the digits
parse_num_lenient(s) ==
    IF s.syntax = "empty" THEN [ret |-> -1, out |-> "unset"]
    ELSE IF s.syntax = "range" THEN [ret |-> -1, out |-> "unset"]
    ELSE [ret |-> 0, out |-> s.value]

\* parse_num: -1 on an empty string, a range error or trailing characters;
\* num > SIZE_MAX cannot happen where size_t has 64 bits
parse_num(s) ==
    IF s.syntax = "empty" THEN [ret |-> -1, out |-> "unset"]
    ELSE IF s.syntax = "range" THEN [ret |-> -1, out |-> "unset"]
    ELSE IF s.syntax = "trailing" THEN [ret |-> -1, out |-> "unset"]
    ELSE [ret |-> 0, out |-> s.value]

\* struct vm_options options = { .mode = VM_MODE_REAL, .mem_size = 1024 * 1024 }
InitialOptions ==
    [ mode |-> "VM_MODE_REAL", mem_size |-> DEFAULT_MEM_SIZE,
      entry_point |-> U64Zero, page_table_is_set |-> 0, page_table |-> 0 ]

\* the getopt loop of main over the option tokens from position i on
RECURSIVE getopt_loop(_, _, _)
getopt_loop(opts, i, o) ==
    IF i > Len(opts) THEN [bad_args |-> FALSE, options |-> o]
    ELSE LET t == opts[i] IN
         CASE t.opt = "R" ->
                getopt_loop(opts, i + 1, [o EXCEPT !.mode = "VM_MODE_REAL"])
           [] t.opt = "P" ->
                getopt_loop(opts, i + 1, [o EXCEPT !.mode = "VM_MODE_PROTECTED"])
           [] t.opt = "L" ->
                getopt_loop(opts, i + 1, [o EXCEPT !.mode = "VM_MODE_LONG"])
           [] t.opt = "m" ->
                LET r == parse_num(t.arg) IN
                IF r.ret < 0 THEN [bad_args |-> TRUE, options |-> o]
                ELSE getopt_loop(opts, i + 1, [o EXCEPT !.mem_size = r.out])
           [] t.opt = "e" ->
                LET r == parse_num(t.arg) IN
                IF r.ret < 0 THEN [bad_args |-> TRUE, options |-> o]
                ELSE getopt_loop(opts, i + 1, [o EXCEPT !.entry_point = r.out])
           [] t.opt = "p" ->
                LET r == parse_num(t.arg) IN
                IF r.ret < 0 THEN [bad_args |-> TRUE, options |-> o]
                ELSE getopt_loop(opts, i + 1,
                         [o EXCEPT !.page_table = r.out, !.page_table_is_set = 1])
           [] OTHER -> [bad_args |-> TRUE, options |-> o]

(***************************************************************************)
(* The kernel's side: what KVM_CREATE_VCPU leaves in the register banks.   *)
(* The first is the architectural reset state; the second has further bits *)
(* already set, as a kernel is free to return.                             *)
(***************************************************************************)
SegNames == {"cs", "ds", "es", "fs", "gs", "ss", "tr", "ldt"}

Seg(base, limit, selector, type) ==
    [ base |-> base, limit |-> limit, selector |-> selector, type |-> type,
      present |-> 1, dpl |-> 0, db |-> 0, s |-> 1, l |-> 0, g |-> 0, avl |-> 0 ]

ResetRegs ==
    [ rip |-> U64(65520, 0, 0, 0), rflags |-> 2, rax |-> 0, rdx |-> 1536 ]

ResetSregs ==
    [ seg |-> [ n \in SegNames |->
                  IF n = "cs" THEN Seg(U64(0, 65535, 0, 0), Lo32(65535), 61440, 11)
                  ELSE IF n = "tr" THEN Seg(U64Zero, Lo32(65535), 0, 11)
                  ELSE IF n = "ldt" THEN Seg(U64Zero, Lo32(65535), 0, 2)
                  ELSE Seg(U64Zero, Lo32(65535), 0, 3) ],
      gdt |-> [base |-> 0, limit |-> 65535],
      idt |-> [base |-> 0, limit |-> 65535],
      cr0 |-> {4, 29, 30}, cr2 |-> 0, cr3 |-> 0, cr4 |-> {}, cr8 |-> 0,
      efer |-> {}, apic_base |-> 2304, interrupt_bitmap |-> << 0, 0, 0, 0 >> ]

OtherSregs ==
    [ ResetSregs EXCEPT !.cr0 = {0, 4, 5}, !.cr3 = 8192, !.cr4 = {9, 13},
                        !.efer = {0, 11}, !.cr2 = 7, !.cr8 = 1,
                        !.seg = [ n \in SegNames |->
                                    [ ResetSregs.seg[n] EXCEPT !.dpl = 3, !.avl = 1,
                                                               !.db = 1, !.g = 1 ] ] ]

KernelResets ==
    { [regs |-> ResetRegs, sregs |-> ResetSregs],
      [regs |-> [ResetRegs EXCEPT !.rax = 7, !.rflags = 514], sregs |-> OtherSregs] }

\* a null struct vm_state pointer, and the vCPU before it is created
NULL == [null |-> TRUE]
NoVcpu == [none |-> TRUE]

\* struct kvm_run before the first exit
InitialRun ==
    [ exit_reason |-> 0,
      io |-> [direction |-> "KVM_EXIT_IO_IN", size |-> 0, port |-> 0, count |-> 0],
      data |-> 0 ]

\* rc once a function has returned
Returned(name, value) == rc @@ (name :> value)
HasReturned(name) == name \in DOMAIN rc

(***************************************************************************)
(* Calls to the kernel and the host, as they appear in the log.            *)
(***************************************************************************)
Call(op, ok) == [op |-> op, ok |-> ok]
Ok(op) == Call(op, TRUE)
Failed(op) == Call(op, FALSE)

FdNames == {"kvm", "vm", "cpu", "image"}

\* the descriptor open() or a creating ioctl returns: the lowest one free
NewFd(h) == 3 + Cardinality(h \cap FdNames)

(***************************************************************************)
(* vm_free: the releases it makes for a given struct vm_state, in order.   *)
(***************************************************************************)
\* a teardown that closes the device handle after the mappings
vm_free_calls_kvm_last(v) ==
    IF v = NULL THEN << >>
    ELSE   (IF v.run # "MAP_FAILED" THEN << Ok("munmap run") >> ELSE << >>)
        \o (IF v.cpu >= 0 THEN << Ok("close cpu") >> ELSE << >>)
        \o (IF v.vm >= 0 THEN << Ok("close vm") >> ELSE << >>)
        \o (IF v.mem # "MAP_FAILED" THEN << Ok("munmap mem") >> ELSE << >>)
        \o (IF v.page_table # "MAP_FAILED" THEN << Ok("munmap page table") >>
            ELSE << >>)
        \o (IF v.kvm >= 0 THEN << Ok("close kvm") >> ELSE << >>)
        \o << Ok("free") >>

\* a teardown in the reverse of the order of acquisition
vm_free_calls_reverse(v) ==
    IF v = NULL THEN << >>
    ELSE   (IF v.page_table # "MAP_FAILED" THEN << Ok("munmap page table") >>
            ELSE << >>)
        \o (IF v.run # "MAP_FAILED" THEN << Ok("munmap run") >> ELSE << >>)
        \o (IF v.cpu >= 0 THEN << Ok("close cpu") >> ELSE << >>)
        \o (IF v.mem # "MAP_FAILED" THEN << Ok("munmap mem") >> ELSE << >>)
        \o (IF v.vm >= 0 THEN << Ok("close vm") >> ELSE << >>)
        \o (IF v.kvm >= 0 THEN << Ok("close kvm") >> ELSE << >>)
        \o << Ok("free") >>

\* a teardown that forgets the page-table mapping
vm_free_calls_no_page_table(v) ==
    IF v = NULL THEN << >>
    ELSE   (IF v.run # "MAP_FAILED" THEN << Ok("munmap run") >> ELSE << >>)
        \o (IF v.cpu >= 0 THEN << Ok("close cpu") >> ELSE << >>)
        \o (IF v.vm >= 0 THEN << Ok("close vm") >> ELSE << >>)
        \o (IF v.kvm >= 0 THEN << Ok("close kvm") >> ELSE << >>)
        \o (IF v.mem # "MAP_FAILED" THEN << Ok("munmap mem") >> ELSE << >>)
        \o << Ok("free") >>

vm_free_calls(v) ==
    IF v = NULL THEN << >>
    ELSE   (IF v.run # "MAP_FAILED" THEN << Ok("munmap run") >> ELSE << >>)
        \o (IF v.cpu >= 0 THEN << Ok("close cpu") >> ELSE << >>)
        \o (IF v.vm >= 0 THEN << Ok("close vm") >> ELSE << >>)
        \o (IF v.kvm >= 0 THEN << Ok("close kvm") >> ELSE << >>)
        \o (IF v.mem # "MAP_FAILED" THEN << Ok("munmap mem") >> ELSE << >>)
        \o (IF v.page_table # "MAP_FAILED" THEN << Ok("munmap page table") >>
            ELSE << >>)
        \o << Ok("free") >>

\* the resource a release call gives back
Released(call) ==
    CASE call.op = "munmap run" -> "run"
      [] call.op = "close cpu" -> "cpu"
      [] call.op = "close vm" -> "vm"
      [] call.op = "close kvm" -> "kvm"
      [] call.op = "munmap mem" -> "mem"
      [] call.op = "munmap page table" -> "page_table"
      [] call.op = "close image" -> "image"
      [] call.op = "free" -> "state"
      [] OTHER -> "nothing"

ReleasedBy(calls) == { Released(calls[i]) : i \in 1..Len(calls) }

(***************************************************************************)
(* vm_create.  n is the number of its calls that succeed: malloc, open     *)
(* /dev/kvm, KVM_CREATE_VM, mmap mem, KVM_SET_USER_MEMORY_REGION,          *)
(* KVM_CREATE_VCPU, KVM_GET_VCPU_MMAP_SIZE, mmap run.  With n < 8 call     *)
(* n + 1 fails, vm_free runs and NULL is returned.                         *)
(***************************************************************************)
CreateCalls ==
    << "malloc", "open /dev/kvm", "KVM_CREATE_VM", "mmap mem",
       "KVM_SET_USER_MEMORY_REGION", "KVM_CREATE_VCPU",
       "KVM_GET_VCPU_MMAP_SIZE", "mmap run" >>

CreateAcquires ==
    << {"state"}, {"kvm"}, {"vm"}, {"mem"}, {}, {"cpu"}, {}, {"run"} >>

RECURSIVE AcquiredUpTo(_)
AcquiredUpTo(n) == IF n = 0 THEN {} ELSE AcquiredUpTo(n - 1) \cup CreateAcquires[n]

\* the struct as vm_create has filled it when its first n calls succeeded
CreatedState(n, mem_size, run_size) ==
    [ kvm |-> IF n >= 2 THEN NewFd(AcquiredUpTo(1)) ELSE -1,
      vm |-> IF n >= 3 THEN NewFd(AcquiredUpTo(2)) ELSE -1,
      cpu |-> IF n >= 6 THEN NewFd(AcquiredUpTo(5)) ELSE -1,
      mem |-> IF n >= 4 THEN "mem" ELSE "MAP_FAILED",
      mem_size |-> IF n >= 3 THEN mem_size ELSE 0,
      run |-> IF n >= 8 THEN "run" ELSE "MAP_FAILED",
      run_size |-> IF n >= 7 THEN run_size ELSE 0,
      page_table |-> "MAP_FAILED",
      page_table_size |-> 0 ]

vm_create ==
    /\ pc = "vm_create"
    /\ \E n \in 0..8, k \in KernelResets :
         LET v == CreatedState(n, options.mem_size, 3 * PAGE_SIZE)
             made == [ i \in 1..(IF n < 8 THEN n + 1 ELSE 8) |->
                         Call(CreateCalls[i], i <= n) ]
             freed == IF n = 0 THEN << >> ELSE vm_free_calls(v)
         IN  \* mmap refuses a length of 0
             /\ (options.mem_size = 0 => n <= 3)
             \* the register banks exist once the vCPU does
             /\ (n < 6 => k = CHOOSE r \in KernelResets : r.regs = ResetRegs)
             /\ slots' = IF n >= 5
                         THEN [ slots EXCEPT ![0] =
                                  [ guest_phys_addr |-> 0,
                                    memory_size |-> options.mem_size,
                                    userspace_addr |-> "mem" ] ]
                         ELSE slots
             /\ vcpu' = IF n >= 6
                        THEN [ regs |-> k.regs, sregs |-> k.sregs,
                               regs_set |-> FALSE, sregs_set |-> FALSE ]
                        ELSE vcpu
             /\ IF n = 8
                THEN /\ vm' = v
                     /\ held' = held \cup AcquiredUpTo(8)
                     /\ log' = log \o made
                     /\ stderr' = stderr
                     /\ rc' = Returned("vm_create", 0)
                     /\ pc' = "vm_load_image"
                ELSE /\ vm' = NULL
                     /\ held' = (held \cup AcquiredUpTo(n)) \ ReleasedBy(freed)
                     /\ log' = log \o made \o freed
                     /\ stderr' = Append(stderr, "perror " \o CreateCalls[n + 1])
                     /\ rc' = Returned("vm_create", -1)
                     /\ pc' = "execute_image_fail"
    /\ UNCHANGED << argv, options, page_table, mem, run, runs, stdin_read,
                    stdin_eof, stdout, guest_out, guest_in, dumps >>

(***************************************************************************)
(* The image file.  A path names a file of some kind and length; byte i of *)
(* every file is (i % 255) + 1, so that no byte of a file is zero and a    *)
(* byte that was not loaded can be told from one that was.                 *)
(***************************************************************************)
FileOf(path) ==
    CASE path = "empty" -> [kind |-> "regular", length |-> 0]
      [] path = "fifo" -> [kind |-> "fifo", length |-> 512]
      [] path = "huge" -> [kind |-> "regular", length |-> 2147483647]
      [] OTHER -> [kind |-> "regular", length |-> 512]

FileByte(path, i) == (i % 255) + 1

Min(a, b) == IF a < b THEN a ELSE b

\* the most one read() transfers on Linux: INT_MAX rounded down to a page
MAX_RW_COUNT == 2147483647 - (PAGE_SIZE - 1)

\* what one successful read(fd, buf, count) at offset 0 may return: all there
\* is, up to count and the kernel's limit, from a regular file; whatever is
\* in the pipe at the time, at least one byte if any is to come, from a FIFO
read_results(file, count) ==
    LET all == Min(file.length, count)
    IN  IF file.kind = "regular" THEN { Min(all, MAX_RW_COUNT) }
        ELSE IF all = 0 THEN { 0 }
        ELSE { 1, all }

(***************************************************************************)
(* vm_load_image: open, one read of up to mem_size bytes into the RAM      *)
(* mapping, close.  The mapping is anonymous, so it is zero before.        *)
(***************************************************************************)
\* a loader that goes on after a failed read
vm_load_image_ignores_read ==
    /\ pc = "vm_load_image"
    /\ \/ /\ log' = Append(log, Failed("open image"))
          /\ stderr' = Append(stderr, "perror open image")
          /\ rc' = Returned("vm_load_image", -1)
          /\ pc' = "execute_image_fail"
          /\ mem' = mem
       \/ /\ log' = log \o << Ok("open image"), Failed("read image"),
                              Ok("close image") >>
          /\ stderr' = Append(stderr, "perror read image")
          /\ rc' = Returned("vm_load_image", 0)
          /\ pc' = "vm_prepare_to_boot"
          /\ mem' = mem
       \/ /\ log' = log \o << Ok("open image"), Ok("read image"),
                              Ok("close image") >>
          /\ stderr' = stderr
          /\ rc' = Returned("vm_load_image", 0)
          /\ pc' = "vm_prepare_to_boot"
          /\ \E r \in read_results(FileOf(argv.image[1]), vm.mem_size) :
                mem' = [from_file |-> r]
    /\ UNCHANGED << argv, options, vm, held, slots, vcpu, page_table, run, runs,
                    stdin_read, stdin_eof, stdout, guest_out, guest_in,
                    dumps >>

vm_load_image ==
    /\ pc = "vm_load_image"
    /\ \/ \* open fails: fd < 0, nothing to close
          /\ log' = Append(log, Failed("open image"))
          /\ stderr' = Append(stderr, "perror open image")
          /\ rc' = Returned("vm_load_image", -1)
          /\ pc' = "execute_image_fail"
          /\ mem' = mem
       \/ \* read fails: the descriptor is closed on the way out
          /\ log' = log \o << Ok("open image"), Failed("read image"),
                              Ok("close image") >>
          /\ stderr' = Append(stderr, "perror read image")
          /\ rc' = Returned("vm_load_image", -1)
          /\ pc' = "execute_image_fail"
          /\ mem' = mem
       \/ \* r >= 0: the first r bytes of the mapping now hold the file's
          /\ log' = log \o << Ok("open image"), Ok("read image"),
                              Ok("close image") >>
          /\ stderr' = stderr
          /\ rc' = Returned("vm_load_image", 0)
          /\ pc' = "vm_prepare_to_boot"
          /\ \E r \in read_results(FileOf(argv.image[1]), vm.mem_size) :
                mem' = [from_file |-> r]
    /\ UNCHANGED << argv, options, vm, held, slots, vcpu, page_table, run, runs,
                    stdin_read, stdin_eof, stdout, guest_out, guest_in,
                    dumps >>

(***************************************************************************)
(* vm_fill_page_table.                                                     *)
(***************************************************************************)
pt_levels == 4
ENTRY_SIZE == 8              \* sizeof(uint64_t)
PRESENT_WRITABLE == 3        \* 0x03

bytes_to_pages(bytes) == (bytes + PAGE_SIZE - 1) \div PAGE_SIZE

\* a sizing loop that counts a level before it converts entries to frames
RECURSIVE pt_pages_loop_early(_, _, _)
pt_pages_loop_early(level, pages, pt_pages) ==
    IF level >= pt_levels THEN pt_pages
    ELSE pt_pages_loop_early(level + 1, bytes_to_pages(pages * ENTRY_SIZE),
                             pt_pages + pages)

\* the sizing loop: pages is the entry count of the level about to be sized
RECURSIVE pt_pages_loop(_, _, _)
pt_pages_loop(level, pages, pt_pages) ==
    IF level >= pt_levels THEN pt_pages
    ELSE LET p == bytes_to_pages(pages * ENTRY_SIZE)
         IN  pt_pages_loop(level + 1, p, pt_pages + p)

\* pt_pages: the frames of the page-table region for a memory size
pt_pages_of(mem_size) == pt_pages_loop(0, bytes_to_pages(mem_size), 0)

\* a fill loop that takes the host offset of a table for its guest address
RECURSIVE fill_loop_host_base(_, _, _, _, _, _)
fill_loop_host_base(pt, level, base, pages, pt_off, guest_pt_base) ==
    IF level >= pt_levels THEN pt
    ELSE LET first == pt_off \div ENTRY_SIZE
             filled == [ j \in DOMAIN pt |->
                           IF j >= first /\ j < first + pages
                           THEN base + (j - first) * PAGE_SIZE + PRESENT_WRITABLE
                           ELSE pt[j] ]
             next_pages == bytes_to_pages(pages * ENTRY_SIZE)
         IN  fill_loop_host_base(filled, level + 1, pt_off, next_pages,
                                 pt_off + next_pages * PAGE_SIZE, guest_pt_base)

\* a fill loop that writes one entry more than the level has
RECURSIVE fill_loop_one_more(_, _, _, _, _, _)
fill_loop_one_more(pt, level, base, pages, pt_off, guest_pt_base) ==
    IF level >= pt_levels THEN pt
    ELSE LET first == pt_off \div ENTRY_SIZE
             filled == [ j \in DOMAIN pt |->
                           IF j >= first /\ j <= first + pages
                           THEN base + (j - first) * PAGE_SIZE + PRESENT_WRITABLE
                           ELSE pt[j] ]
             next_pages == bytes_to_pages(pages * ENTRY_SIZE)
         IN  fill_loop_one_more(filled, level + 1, pt_off + guest_pt_base,
                                next_pages, pt_off + next_pages * PAGE_SIZE,
                                guest_pt_base)

\* the fill loop: pt_off is pt_base - vm->page_table, in bytes
RECURSIVE fill_loop(_, _, _, _, _, _)
fill_loop(pt, level, base, pages, pt_off, guest_pt_base) ==
    IF level >= pt_levels THEN pt
    ELSE LET first == pt_off \div ENTRY_SIZE
             filled == [ j \in DOMAIN pt |->
                           IF j >= first /\ j < first + pages
                           THEN base + (j - first) * PAGE_SIZE + PRESENT_WRITABLE
                           ELSE pt[j] ]
             next_pages == bytes_to_pages(pages * ENTRY_SIZE)
         IN  fill_loop(filled, level + 1, pt_off + guest_pt_base, next_pages,
                       pt_off + next_pages * PAGE_SIZE, guest_pt_base)

\* the region after memset and the fill loop, as 8-byte entries from 0
filled_page_table(mem_size) ==
    LET entries == (pt_pages_of(mem_size) * PAGE_SIZE) \div ENTRY_SIZE
        zeroed == [ j \in 0..(entries - 1) |-> 0 ]
    IN  fill_loop(zeroed, 0, 0, bytes_to_pages(mem_size), 0, mem_size)

\* a root one frame past the region
page_table_cr3_past_end(mem_size) == mem_size + pt_pages_of(mem_size) * PAGE_SIZE

\* *cr3 = guest_pt_base + (pt_pages - 1) * PAGE_SIZE
page_table_cr3(mem_size) == mem_size + (pt_pages_of(mem_size) - 1) * PAGE_SIZE

\* failing is "none", "mmap" or "ioctl": [ret, vm, calls, err, table, slot, cr3]
vm_fill_page_table(v, failing) ==
    LET size == pt_pages_of(v.mem_size) * PAGE_SIZE
        sized == [v EXCEPT !.page_table_size = size]
        mapped == [sized EXCEPT !.page_table = "page_table"]
        region == [ guest_phys_addr |-> v.mem_size, memory_size |-> size,
                    userspace_addr |-> "page_table" ]
    IN  IF failing = "mmap"
        THEN [ ret |-> -1, vm |-> sized,
               calls |-> << Failed("mmap page table") >>,
               err |-> << "perror mmap page table" >>,
               mapped |-> FALSE, registered |-> FALSE, cr3 |-> 0 ]
        ELSE IF failing = "ioctl"
        THEN [ ret |-> -1, vm |-> mapped,
               calls |-> << Ok("mmap page table"),
                            Failed("KVM_SET_USER_MEMORY_REGION page table") >>,
               err |-> << "perror KVM_SET_USER_MEMORY_REGION page table" >>,
               mapped |-> TRUE, registered |-> FALSE, cr3 |-> 0 ]
        ELSE [ ret |-> 0, vm |-> mapped,
               calls |-> << Ok("mmap page table"),
                            Ok("KVM_SET_USER_MEMORY_REGION page table") >>,
               err |-> << >>,
               mapped |-> TRUE, registered |-> TRUE,
               cr3 |-> page_table_cr3(v.mem_size) ]

PageTableRegion(v) ==
    [ guest_phys_addr |-> v.mem_size, memory_size |-> v.page_table_size,
      userspace_addr |-> "page_table" ]

(***************************************************************************)
(* vm_setup_segment and vm_prepare_to_boot.                                *)
(***************************************************************************)
\* a setup that gives every mode but real mode 32-bit default operands
vm_setup_segment_db_long(seg, mode, is_code) ==
    [ seg EXCEPT
        !.base = U64Zero,
        !.selector = IF mode = "VM_MODE_REAL" THEN 0
                     ELSE IF is_code THEN 8 ELSE 16,
        !.limit = IF mode = "VM_MODE_REAL" THEN U64(65535, 0, 0, 0)
                  ELSE U64(65535, 65535, 0, 0),
        !.type = IF is_code THEN 11 ELSE 3,
        !.db = IF mode = "VM_MODE_REAL" THEN 0 ELSE 1,
        !.l = IF mode = "VM_MODE_LONG" THEN 1 ELSE 0,
        !.g = IF mode = "VM_MODE_REAL" THEN 0 ELSE 1 ]

\* a setup that also resets the privilege level
vm_setup_segment_clears_dpl(seg, mode, is_code) ==
    [ seg EXCEPT
        !.base = U64Zero,
        !.selector = IF mode = "VM_MODE_REAL" THEN 0
                     ELSE IF is_code THEN 8 ELSE 16,
        !.limit = IF mode = "VM_MODE_REAL" THEN U64(65535, 0, 0, 0)
                  ELSE U64(65535, 65535, 0, 0),
        !.type = IF is_code THEN 11 ELSE 3,
        !.dpl = 0,
        !.db = IF mode = "VM_MODE_PROTECTED" THEN 1 ELSE 0,
        !.l = IF mode = "VM_MODE_LONG" THEN 1 ELSE 0,
        !.g = IF mode = "VM_MODE_REAL" THEN 0 ELSE 1 ]

vm_setup_segment(seg, mode, is_code) ==
    [ seg EXCEPT
        !.base = U64Zero,
        !.selector = IF mode = "VM_MODE_REAL" THEN 0
                     ELSE IF is_code THEN 8 ELSE 16,
        !.limit = IF mode = "VM_MODE_REAL" THEN U64(65535, 0, 0, 0)
                  ELSE U64(65535, 65535, 0, 0),
        !.type = IF is_code THEN 11 ELSE 3,
        !.db = IF mode = "VM_MODE_PROTECTED" THEN 1 ELSE 0,
        !.l = IF mode = "VM_MODE_LONG" THEN 1 ELSE 0,
        !.g = IF mode = "VM_MODE_REAL" THEN 0 ELSE 1 ]

\* range checks that let the bound itself pass
entry_point_ok_inclusive(mode, entry_point) ==
    CASE mode = "VM_MODE_REAL" -> ~U64Less(REAL_MODE_LIMIT, entry_point)
      [] mode = "VM_MODE_PROTECTED" -> ~U64Less(PROTECTED_MODE_LIMIT, entry_point)
      [] OTHER -> TRUE

\* the range checks of the mode switch: TRUE when the entry point passes
entry_point_ok(mode, entry_point) ==
    CASE mode = "VM_MODE_REAL" -> ~U64GE(entry_point, REAL_MODE_LIMIT)
      [] mode = "VM_MODE_PROTECTED" -> ~U64GE(entry_point, PROTECTED_MODE_LIMIT)
      [] OTHER -> TRUE

entry_point_message(mode) ==
    IF mode = "VM_MODE_REAL" THEN "Entry point too far for real mode"
    ELSE "Entry point too far for protected mode"

\* a switch that builds tables in long mode whatever -p said
builds_page_table_any_long(opt) == opt.mode = "VM_MODE_LONG"

\* whether the switch calls vm_fill_page_table
builds_page_table(opt) ==
    opt.mode = "VM_MODE_LONG" /\ opt.page_table_is_set = 0

\* a mode switch that stores the mode's bits instead of adding them
mode_switch_assign(sregs, opt, cr3) ==
    CASE opt.mode = "VM_MODE_REAL" -> sregs
      [] opt.mode = "VM_MODE_PROTECTED" ->
            [sregs EXCEPT !.cr0 = {0}]
      [] OTHER ->
            [sregs EXCEPT
                !.cr3 = IF opt.page_table_is_set # 0 THEN opt.page_table ELSE cr3,
                !.cr0 = {0, 31},
                !.cr4 = {5},
                !.efer = {8, 10}]

\* the control registers after the mode switch (cr3 is what the builder gave)
mode_switch(sregs, opt, cr3) ==
    CASE opt.mode = "VM_MODE_REAL" -> sregs
      [] opt.mode = "VM_MODE_PROTECTED" ->
            [sregs EXCEPT !.cr0 = @ \cup {0}]                 \* PE
      [] OTHER ->
            [sregs EXCEPT
                !.cr3 = IF opt.page_table_is_set # 0 THEN opt.page_table ELSE cr3,
                !.cr0 = @ \cup {0, 31},                       \* PG, PE
                !.cr4 = @ \cup {5},                           \* PAE
                !.efer = @ \cup {8, 10}]                      \* LMA, LME

\* the six vm_setup_segment calls
setup_segments(sregs, mode) ==
    [ sregs EXCEPT
        !.seg = [ n \in SegNames |->
                    IF n = "cs" THEN vm_setup_segment(sregs.seg[n], mode, TRUE)
                    ELSE IF n \in {"ds", "es", "fs", "gs", "ss"}
                    THEN vm_setup_segment(sregs.seg[n], mode, FALSE)
                    ELSE sregs.seg[n] ] ]

PrepareFailures ==
    { "none", "KVM_GET_REGS", "KVM_GET_SREGS", "mmap", "ioctl", "KVM_SET_REGS",
      "KVM_SET_SREGS" }

vm_prepare_to_boot ==
    /\ pc = "vm_prepare_to_boot"
    /\ \E failing \in PrepareFailures :
         LET fail(calls, err) ==
                 /\ log' = log \o calls
                 /\ stderr' = stderr \o err
                 /\ rc' = Returned("vm_prepare_to_boot", -1)
                 /\ pc' = "execute_image_fail"
             got == << Ok("KVM_GET_REGS"), Ok("KVM_GET_SREGS") >>
             pt == vm_fill_page_table(vm,
                       IF failing \in {"mmap", "ioctl"} THEN failing ELSE "none")
             built == builds_page_table(options)
             ptcalls == IF built THEN pt.calls ELSE << >>
             regs == [vcpu.regs EXCEPT !.rip = options.entry_point]
             sregs == setup_segments(
                          mode_switch(vcpu.sregs, options, pt.cr3), options.mode)
         IN  IF failing = "KVM_GET_REGS"
             THEN /\ fail(<< Failed("KVM_GET_REGS") >>, << "perror KVM_GET_REGS" >>)
                  /\ UNCHANGED << vm, held, slots, vcpu, page_table >>
             ELSE IF failing = "KVM_GET_SREGS"
             THEN /\ fail(<< Ok("KVM_GET_REGS"), Failed("KVM_GET_SREGS") >>,
                          << "perror KVM_GET_SREGS" >>)
                  /\ UNCHANGED << vm, held, slots, vcpu, page_table >>
             ELSE IF ~entry_point_ok(options.mode, options.entry_point)
             THEN /\ fail(got, << entry_point_message(options.mode) >>)
                  /\ UNCHANGED << vm, held, slots, vcpu, page_table >>
             ELSE /\ vm' = IF built THEN pt.vm ELSE vm
                  /\ held' = IF built /\ pt.mapped
                             THEN held \cup {"page_table"} ELSE held
                  /\ page_table' = IF built /\ pt.mapped
                                   THEN filled_page_table(vm.mem_size)
                                   ELSE page_table
                  /\ slots' = IF built /\ pt.registered
                              THEN [slots EXCEPT ![1] = PageTableRegion(pt.vm)]
                              ELSE slots
                  /\ IF built /\ pt.ret < 0
                     THEN /\ fail(got \o pt.calls, pt.err)
                          /\ vcpu' = vcpu
                     ELSE IF failing = "KVM_SET_REGS"
                     THEN /\ fail(got \o ptcalls \o << Failed("KVM_SET_REGS") >>,
                                  << "perror KVM_SET_REGS" >>)
                          /\ vcpu' = vcpu
                     ELSE IF failing = "KVM_SET_SREGS"
                     THEN /\ fail(got \o ptcalls \o << Ok("KVM_SET_REGS"),
                                                       Failed("KVM_SET_SREGS") >>,
                                  << "perror KVM_SET_SREGS" >>)
                          /\ vcpu' = [vcpu EXCEPT !.regs = regs, !.regs_set = TRUE]
                     ELSE /\ log' = log \o got \o ptcalls
                                        \o << Ok("KVM_SET_REGS"), Ok("KVM_SET_SREGS") >>
                          /\ stderr' = stderr
                          /\ rc' = Returned("vm_prepare_to_boot", 0)
                          /\ pc' = "vm_run"
                          /\ vcpu' = [vcpu EXCEPT !.regs = regs, !.regs_set = TRUE,
                                                  !.sregs = sregs,
                                                  !.sregs_set = TRUE]
    /\ UNCHANGED << argv, options, mem, run, runs, stdin_read, stdin_eof,
                    stdout, guest_out, guest_in, dumps >>

(***************************************************************************)
(* The guest and the kernel's run operation.  A successful KVM_RUN leaves  *)
(* an exit in struct kvm_run.  The io substruct shares its storage with    *)
(* the payloads of other exits, so an exit that is not port I/O leaves io  *)
(* as it was.                                                              *)
(***************************************************************************)
\* vm_dump's table of the names of the exit reasons
exit_reasons ==
    << "KVM_EXIT_UNKNOWN", "KVM_EXIT_EXCEPTION", "KVM_EXIT_IO", "KVM_EXIT_HYPERCALL",
       "KVM_EXIT_DEBUG", "KVM_EXIT_HLT", "KVM_EXIT_MMIO", "KVM_EXIT_IRQ_WINDOW_OPEN",
       "KVM_EXIT_SHUTDOWN", "KVM_EXIT_FAIL_ENTRY", "KVM_EXIT_INTR", "KVM_EXIT_SET_TPR",
       "KVM_EXIT_TPR_ACCESS", "KVM_EXIT_S390_SIEIC", "KVM_EXIT_S390_RESET",
       "KVM_EXIT_DCR", "KVM_EXIT_NMI", "KVM_EXIT_INTERNAL_ERROR", "KVM_EXIT_OSI",
       "KVM_EXIT_PAPR_HCALL", "KVM_EXIT_S390_UCONTROL", "KVM_EXIT_WATCHDOG",
       "KVM_EXIT_S390_TSCH", "KVM_EXIT_EPR", "KVM_EXIT_SYSTEM_EVENT",
       "KVM_EXIT_S390_STSI", "KVM_EXIT_IOAPIC_EOI", "KVM_EXIT_HYPERV" >>

\* a bound on the table that is one entry short
exit_reason_name_short(exit_reason) ==
    IF exit_reason < Len(exit_reasons) - 1 THEN exit_reasons[exit_reason + 1]
    ELSE "UNKNOWN"

\* the name printed for an exit reason (the C table is indexed from 0)
exit_reason_name(exit_reason) ==
    IF exit_reason < Len(exit_reasons) THEN exit_reasons[exit_reason + 1]
    ELSE "UNKNOWN"

Bytes == {65, 255}

IoExit(direction, size, port, count, data) ==
    [ exit_reason |-> KVM_EXIT_IO,
      io |-> [direction |-> direction, size |-> size, port |-> port,
              count |-> count],
      data |-> data ]

\* OUT dx, al on the serial port, one exit per byte
SerialOutExits == { IoExit("KVM_EXIT_IO_OUT", 1, SERIAL_PORT, 1, b) : b \in Bytes }

\* IN al, dx on the serial port; the payload holds what was there before
SerialInExits(r) == { IoExit("KVM_EXIT_IO_IN", 1, SERIAL_PORT, 1, r.data) }

\* port I/O the serial console does not serve
OtherIoExits(r) ==
    { IoExit("KVM_EXIT_IO_OUT", 1, SERIAL_PORT + 1, 1, 65),
      IoExit("KVM_EXIT_IO_IN", 4, SERIAL_PORT, 1, r.data),
      IoExit("KVM_EXIT_IO_OUT", 1, SERIAL_PORT, 2, 65) }

\* exits that are not port I/O, among them a code past the name table
OtherReasons == { 0, KVM_EXIT_HLT, KVM_EXIT_MMIO, KVM_EXIT_SHUTDOWN, 28 }

OtherExits(r) == { [r EXCEPT !.exit_reason = x] : x \in OtherReasons }

\* an OUT on the serial port of any byte value
AnySerialOutExits ==
    { IoExit("KVM_EXIT_IO_OUT", 1, SERIAL_PORT, 1, b) : b \in 0..255 }

\* the image "echo": IN al, dx then OUT dx, al, over and over; the byte it
\* puts out is the byte the IN before left in the payload
EchoExits(r, n) ==
    IF n > 0 /\ r.exit_reason = KVM_EXIT_IO /\ r.io.direction = "KVM_EXIT_IO_IN"
    THEN { IoExit("KVM_EXIT_IO_OUT", 1, SERIAL_PORT, 1, r.data) }
    ELSE SerialInExits(r)

\* the image "exits": a guest that leaves at once with some exit reason, each
\* code of the name table, the two codes past it and the largest code that an
\* integer here can hold
FaultExits(r) ==
    { [r EXCEPT !.exit_reason = x] :
        x \in 0..(Len(exit_reasons) + 1) \cup {2147483647} }

\* the exits a guest may make, by the image it was loaded from; n is the
\* number of KVM_RUN invocations so far
GuestExits(path, r, n) ==
    CASE path = "echo" -> EchoExits(r, n)
      [] path = "exits" -> FaultExits(r)
      [] OTHER -> SerialOutExits \cup SerialInExits(r) \cup OtherIoExits(r)
                  \cup OtherExits(r)

\* what getchar may return: a byte while the host has input left, or EOF
\* with the image "echo" the host's first byte is any byte value
HostBytes ==
    IF argv.image[1] = "echo" /\ stdin_read = << >> THEN 0..255 ELSE Bytes

GetcharResults ==
    (IF Len(stdin_read) < MaxInput THEN HostBytes ELSE {}) \cup {EOF}

(***************************************************************************)
(* vm_dump.                                                                *)
(***************************************************************************)
\* what vm_dump prints; regs_ok and sregs_ok tell whether its two reads succeed
\* a dump that gives up when the general registers cannot be read
vm_dump_stops_on_error(r, cpu, regs_ok, sregs_ok) ==
    [ lines |->    << "===== BEGIN VM STATE =====" >>
                \o << "Exit reason: " \o ToString(r.exit_reason) \o " ("
                       \o exit_reason_name(r.exit_reason) \o ")" >>
                \o (IF r.exit_reason = KVM_EXIT_IO
                    THEN IF r.io.direction = "KVM_EXIT_IO_OUT"
                         THEN << "Write bytes at port" >>
                         ELSE << "Read bytes at port" >>
                    ELSE IF r.exit_reason = KVM_EXIT_MMIO
                    THEN << "MMIO access" >>
                    ELSE << >>)
                \o (IF regs_ok THEN << "RAX.. RIP RFL" >>
                    ELSE << "perror KVM_GET_REGS" >>)
                \o (IF ~regs_ok THEN << >>
                    ELSE    (IF sregs_ok THEN << "CS.. CR0.. INT BITMAP" >>
                             ELSE << "perror KVM_GET_SREGS" >>)
                         \o << "===== END VM STATE =====" >>),
      calls |->    << Call("KVM_GET_REGS", regs_ok) >>
                \o (IF regs_ok THEN << Call("KVM_GET_SREGS", sregs_ok) >>
                    ELSE << >>),
      record |-> [ exit_reason |-> r.exit_reason,
                   name |-> exit_reason_name(r.exit_reason),
                   regs_ok |-> regs_ok, sregs_ok |-> sregs_ok,
                   regs |-> cpu.regs, sregs |-> cpu.sregs ] ]

vm_dump(r, cpu, regs_ok, sregs_ok) ==
    [ lines |->    << "===== BEGIN VM STATE =====" >>
                \o << "Exit reason: " \o ToString(r.exit_reason) \o " ("
                       \o exit_reason_name(r.exit_reason) \o ")" >>
                \o (IF r.exit_reason = KVM_EXIT_IO
                    THEN IF r.io.direction = "KVM_EXIT_IO_OUT"
                         THEN << "Write bytes at port" >>
                         ELSE << "Read bytes at port" >>
                    ELSE IF r.exit_reason = KVM_EXIT_MMIO
                    THEN << "MMIO access" >>
                    ELSE << >>)
                \o (IF regs_ok THEN << "RAX.. RIP RFL" >>
                    ELSE << "perror KVM_GET_REGS" >>)
                \o (IF sregs_ok THEN << "CS.. CR0.. INT BITMAP" >>
                    ELSE << "perror KVM_GET_SREGS" >>)
                \o << "===== END VM STATE =====" >>,
      calls |-> << Call("KVM_GET_REGS", regs_ok), Call("KVM_GET_SREGS", sregs_ok) >>,
      record |-> [ exit_reason |-> r.exit_reason,
                   name |-> exit_reason_name(r.exit_reason),
                   regs_ok |-> regs_ok, sregs_ok |-> sregs_ok,
                   regs |-> cpu.regs, sregs |-> cpu.sregs ] ]

(***************************************************************************)
(* vm_run: one iteration of its loop, from KVM_RUN to continue, break or   *)
(* goto fail.                                                              *)
(***************************************************************************)
\* a test that forgets the repeat count
serviceable_any_count(r) ==
    /\ r.exit_reason = KVM_EXIT_IO
    /\ r.io.port = SERIAL_PORT
    /\ r.io.size = 1

\* the exits the serial console serves
serviceable(r) ==
    /\ r.exit_reason = KVM_EXIT_IO
    /\ r.io.port = SERIAL_PORT
    /\ r.io.size = 1
    /\ r.io.count = 1

\* a console that reads the byte and never stores it
store_payload_lost(r, c) == r

\* data[0] = c, through the uint8_t pointer
store_payload(r, c) == [r EXCEPT !.data = c % 256]

\* a console that writes the newest byte first
put_payload_first(out, r) == << r.data >> \o out

\* putchar(data[0])
put_payload(out, r) == Append(out, r.data)

\* a loop that keeps what getchar returned in a signed char before the test
dispatch_char(r, out, c) ==
    LET ch == IF c >= 128 THEN c - 256 ELSE c
    IN  IF serviceable(r)
        THEN IF r.io.direction = "KVM_EXIT_IO_OUT"
             THEN [ next |-> "continue", run |-> r, stdout |-> put_payload(out, r),
                    getchar |-> FALSE, dump |-> FALSE ]
             ELSE IF ch = EOF
             THEN [ next |-> "break", run |-> r, stdout |-> out,
                    getchar |-> TRUE, dump |-> FALSE ]
             ELSE [ next |-> "continue", run |-> store_payload(r, ch), stdout |-> out,
                    getchar |-> TRUE, dump |-> FALSE ]
        ELSE [ next |-> "fail", run |-> r, stdout |-> out,
               getchar |-> FALSE, dump |-> TRUE ]

\* a loop that stores EOF like a byte and goes on
dispatch_eof_stored(r, out, c) ==
    IF serviceable(r)
    THEN IF r.io.direction = "KVM_EXIT_IO_OUT"
         THEN [ next |-> "continue", run |-> r, stdout |-> put_payload(out, r),
                getchar |-> FALSE, dump |-> FALSE ]
         ELSE [ next |-> "continue", run |-> store_payload(r, c), stdout |-> out,
                getchar |-> TRUE, dump |-> FALSE ]
    ELSE [ next |-> "fail", run |-> r, stdout |-> out,
           getchar |-> FALSE, dump |-> TRUE ]

\* a loop that leaves with break after vm_dump, so that vm_run returns 0
dispatch_dump_break(r, out, c) ==
    IF serviceable(r)
    THEN IF r.io.direction = "KVM_EXIT_IO_OUT"
         THEN [ next |-> "continue", run |-> r, stdout |-> put_payload(out, r),
                getchar |-> FALSE, dump |-> FALSE ]
         ELSE IF c = EOF
         THEN [ next |-> "break", run |-> r, stdout |-> out,
                getchar |-> TRUE, dump |-> FALSE ]
         ELSE [ next |-> "continue", run |-> store_payload(r, c), stdout |-> out,
                getchar |-> TRUE, dump |-> FALSE ]
    ELSE [ next |-> "break", run |-> r, stdout |-> out,
           getchar |-> FALSE, dump |-> TRUE ]

\* the body of the loop after a successful KVM_RUN left exit r; c is what
\* getchar returns if it is called
dispatch(r, out, c) ==
    IF serviceable(r)
    THEN IF r.io.direction = "KVM_EXIT_IO_OUT"
         THEN [ next |-> "continue", run |-> r, stdout |-> put_payload(out, r),
                getchar |-> FALSE, dump |-> FALSE ]
         ELSE IF c = EOF
         THEN [ next |-> "break", run |-> r, stdout |-> out,
                getchar |-> TRUE, dump |-> FALSE ]
         ELSE [ next |-> "continue", run |-> store_payload(r, c), stdout |-> out,
                getchar |-> TRUE, dump |-> FALSE ]
    ELSE [ next |-> "fail", run |-> r, stdout |-> out,
           getchar |-> FALSE, dump |-> TRUE ]

\* re-entering the guest completes a pending IN from the payload area
PendingIn == runs > 0 /\ run.exit_reason = KVM_EXIT_IO
                      /\ run.io.direction = "KVM_EXIT_IO_IN"

\* a loop that tries again when KVM_RUN returns an error
vm_run_retries ==
    /\ pc = "vm_run"
    /\ runs < MaxSteps
    /\ runs' = runs + 1
    /\ guest_in' = IF PendingIn THEN Append(guest_in, run.data) ELSE guest_in
    /\ \/ \* ioctl(KVM_RUN) < 0
          /\ log' = Append(log, Failed("KVM_RUN"))
          /\ stderr' = Append(stderr, "perror KVM_RUN")
          /\ rc' = rc
          /\ pc' = "vm_run"
          /\ UNCHANGED << run, stdout, guest_out, stdin_read, stdin_eof, dumps >>
       \/ \E e \in GuestExits(argv.image[1], run, runs), c \in GetcharResults,
             regs_ok \in BOOLEAN, sregs_ok \in BOOLEAN :
            LET d == dispatch(e, stdout, c)
                dump == vm_dump(d.run, vcpu, regs_ok, sregs_ok)
            IN  /\ guest_out' = IF e \in AnySerialOutExits
                                THEN Append(guest_out, e.data) ELSE guest_out
                /\ run' = d.run
                /\ stdout' = d.stdout
                /\ stdin_read' = IF d.getchar /\ c # EOF
                                 THEN Append(stdin_read, c) ELSE stdin_read
                /\ stdin_eof' = (stdin_eof \/ (d.getchar /\ c = EOF))
                /\ dumps' = IF d.dump THEN Append(dumps, dump.record) ELSE dumps
                /\ stderr' = IF d.dump THEN stderr \o dump.lines ELSE stderr
                /\ log' = IF d.dump THEN log \o dump.calls ELSE log
                \* choices that were not used make no difference
                /\ (~d.getchar => c = EOF)
                /\ (~d.dump => regs_ok /\ sregs_ok)
                /\ CASE d.next = "continue" ->
                          /\ pc' = "vm_run"
                          /\ rc' = rc
                     [] d.next = "break" ->
                          /\ pc' = "execute_image_ok"
                          /\ rc' = Returned("vm_run", 0)
                     [] OTHER ->
                          /\ pc' = "execute_image_fail"
                          /\ rc' = Returned("vm_run", -1)
    /\ UNCHANGED << argv, options, vm, held, slots, vcpu, page_table, mem >>

vm_run ==
    /\ pc = "vm_run"
    /\ runs < MaxSteps
    /\ runs' = runs + 1
    /\ guest_in' = IF PendingIn THEN Append(guest_in, run.data) ELSE guest_in
    /\ \/ \* ioctl(KVM_RUN) < 0
          /\ log' = Append(log, Failed("KVM_RUN"))
          /\ stderr' = Append(stderr, "perror KVM_RUN")
          /\ rc' = Returned("vm_run", -1)
          /\ pc' = "execute_image_fail"
          /\ UNCHANGED << run, stdout, guest_out, stdin_read, stdin_eof, dumps >>
       \/ \E e \in GuestExits(argv.image[1], run, runs), c \in GetcharResults,
             regs_ok \in BOOLEAN, sregs_ok \in BOOLEAN :
            LET d == dispatch(e, stdout, c)
                dump == vm_dump(d.run, vcpu, regs_ok, sregs_ok)
            IN  /\ guest_out' = IF e \in AnySerialOutExits
                                THEN Append(guest_out, e.data) ELSE guest_out
                /\ run' = d.run
                /\ stdout' = d.stdout
                /\ stdin_read' = IF d.getchar /\ c # EOF
                                 THEN Append(stdin_read, c) ELSE stdin_read
                /\ stdin_eof' = (stdin_eof \/ (d.getchar /\ c = EOF))
                /\ dumps' = IF d.dump THEN Append(dumps, dump.record) ELSE dumps
                /\ stderr' = IF d.dump THEN stderr \o dump.lines ELSE stderr
                /\ log' = IF d.dump THEN log \o dump.calls ELSE log
                \* choices that were not used make no difference
                /\ (~d.getchar => c = EOF)
                /\ (~d.dump => regs_ok /\ sregs_ok)
                /\ CASE d.next = "continue" ->
                          /\ pc' = "vm_run"
                          /\ rc' = rc
                     [] d.next = "break" ->
                          /\ pc' = "execute_image_ok"
                          /\ rc' = Returned("vm_run", 0)
                     [] OTHER ->
                          /\ pc' = "execute_image_fail"
                          /\ rc' = Returned("vm_run", -1)
    /\ UNCHANGED << argv, options, vm, held, slots, vcpu, page_table, mem >>

(***************************************************************************)
(* The end of execute_image: vm_free(vm), then return 0 after the run loop *)
(* ended well and -1 at the label fail.                                    *)
(***************************************************************************)
vm_free ==
    /\ pc \in {"execute_image_ok", "execute_image_fail"}
    /\ LET calls == vm_free_calls(vm)
       IN  /\ log' = log \o calls
           /\ held' = held \ ReleasedBy(calls)
    /\ rc' = Returned("execute_image", IF pc = "execute_image_ok" THEN 0 ELSE -1)
    /\ pc' = "main_return"
    /\ UNCHANGED << argv, options, vm, slots, vcpu, page_table, mem, run, runs,
                    stdin_read, stdin_eof, stdout, guest_out, guest_in, stderr,
                    dumps >>

(***************************************************************************)
(* main: the getopt loop and the call of execute_image, then its return.   *)
(***************************************************************************)
main ==
    /\ pc = "main"
    /\ LET r == getopt_loop(argv.opts, 1, InitialOptions)
       IN  /\ options' = r.options
           /\ IF r.bad_args \/ Len(argv.image) = 0      \* optind >= argc
              THEN /\ stderr' = Append(stderr, "Usage: blankvm")
                   /\ rc' = Returned("main", EXIT_FAILURE)
                   /\ pc' = "done"
              ELSE /\ stderr' = stderr
                   /\ rc' = rc
                   /\ pc' = "vm_create"
    /\ UNCHANGED << argv, vm, held, log, slots, vcpu, page_table, mem, run,
                    runs, stdin_read, stdin_eof, stdout, guest_out, guest_in,
                    dumps >>

main_return ==
    /\ pc = "main_return"
    /\ rc' = Returned("main", IF rc["execute_image"] # 0 THEN EXIT_FAILURE
                              ELSE EXIT_SUCCESS)
    /\ pc' = "done"
    /\ UNCHANGED << argv, options, vm, held, log, slots, vcpu, page_table, mem,
                    run, runs, stdin_read, stdin_eof, stdout, guest_out,
                    guest_in, stderr, dumps >>

(***************************************************************************)
(* The program.                                                            *)
(***************************************************************************)
InitWith(cmdlines) ==
    /\ pc = "main"
    /\ argv \in cmdlines
    /\ options = InitialOptions
    /\ vm = NULL
    /\ held = {}
    /\ log = << >>
    /\ slots = [ n \in {0, 1} |-> [ guest_phys_addr |-> 0, memory_size |-> 0,
                                    userspace_addr |-> "none" ] ]
    /\ vcpu = NoVcpu
    /\ page_table = << >>
    /\ mem = [from_file |-> 0]
    /\ run = InitialRun
    /\ runs = 0
    /\ stdin_read = << >>
    /\ stdin_eof = FALSE
    /\ stdout = << >>
    /\ guest_out = << >>
    /\ guest_in = << >>
    /\ stderr = << >>
    /\ dumps = << >>
    /\ rc = << >>

Init == InitWith(CmdLines)

Next ==
    \/ main
    \/ vm_create
    \/ vm_load_image
    \/ vm_prepare_to_boot
    \/ vm_run
    \/ vm_free
    \/ main_return

Spec == Init /\ [][Next]_vars

\* the program up to the first KVM_RUN, in long mode over the builder's sizes
InitBuilder == InitWith(BuilderCmdLines)

NextBuilder ==
    \/ main
    \/ vm_create
    \/ vm_load_image
    \/ vm_prepare_to_boot
    \/ vm_free
    \/ main_return

SpecBuilder == InitBuilder /\ [][NextBuilder]_vars

\* the same part of the program over the kinds of image file
InitLoader == InitWith(LoaderCmdLines)

SpecLoader == InitLoader /\ [][NextBuilder]_vars

\* the whole program with the images "echo" and "exits"
InitGuests == InitWith(GuestCmdLines)

SpecGuests == InitGuests /\ [][Next]_vars

(***************************************************************************)
(* Properties.                                                             *)
(***************************************************************************)
InLog(call) == \E i \in 1..Len(log) : log[i] = call
Printed(line) == \E i \in 1..Len(stderr) : stderr[i] = line
Done == pc = "done"
ExitCode == rc["main"]

\* C1: the bytes written to standard output are exactly the payload bytes of
\* the guest's serviced OUT exits, in the order of the exits, one byte per
\* exit, in every state of the run and after it ended, cleanly or fatally.
C1_SerialOutputOrder == stdout = guest_out

\* two different bytes were put out in order and the run then ended fatally
C1_Witness ==
    /\ Done
    /\ stdout = << 65, 255 >>
    /\ ExitCode = EXIT_FAILURE

\* a serviced IN whose byte is in the payload and not yet taken by the guest
InDelivered ==
    /\ pc = "vm_run"
    /\ runs > 0
    /\ run.exit_reason = KVM_EXIT_IO
    /\ run.io.direction = "KVM_EXIT_IO_IN"

\* C2: the guest receives exactly the bytes read from standard input, in
\* order: the k-th IN that completes delivers the k-th byte; a byte that was
\* read is in the payload before the next KVM_RUN; no byte is read that is not
\* delivered to an IN, so OUT exits consume none.
C2_SerialInputOrder ==
    /\ Len(guest_in) <= Len(stdin_read)
    /\ \A k \in 1..Len(guest_in) : guest_in[k] = stdin_read[k]
    /\ IF InDelivered
       THEN /\ Len(stdin_read) = Len(guest_in) + 1
            /\ run.data = stdin_read[Len(stdin_read)]
       ELSE Len(stdin_read) = Len(guest_in)

\* the guest has received two different bytes, 0xFF first
C2_Witness == guest_in = << 255, 65 >>

\* C3: when a serviced IN finds standard input at end-of-file, that iteration
\* leaves the loop with vm_run returning 0 and the payload untouched; from then
\* on KVM_RUN is not invoked again; and the process ends with every resource
\* released and exit code 0.
C3_CleanEof ==
    /\ [][ (pc = "vm_run" /\ ~stdin_eof /\ stdin_eof')
             => /\ pc' = "execute_image_ok"
                /\ rc'["vm_run"] = 0
                /\ run'.data = run.data
                /\ stdin_read' = stdin_read ]_vars
    /\ [][ stdin_eof => runs' = runs ]_vars
    /\ [](stdin_eof /\ Done
             => /\ ExitCode = 0
                /\ held = {}
                /\ InLog(Ok("munmap run")) /\ InLog(Ok("close kvm"))
                /\ InLog(Ok("free")))

\* the run ended on end-of-file after the guest had read a byte
C3_Witness ==
    /\ Done
    /\ stdin_eof
    /\ Len(stdin_read) = 1
    /\ ExitCode = 0

\* an exit the serial console does not serve, as the claim lists them
Unhandled(r) ==
    ~(r.exit_reason = 2 /\ r.io.port = 1016 /\ r.io.size = 1 /\ r.io.count = 1)

\* the step is a KVM_RUN that returned an error
RunCallFailed == log' = Append(log, Failed("KVM_RUN"))

\* C4: every exit that is not port I/O on port 0x3F8 with size 1 and count 1
\* makes that iteration call vm_dump once, read and write no serial byte, and
\* leave the loop with failure; vm_dump runs at most once, no KVM_RUN follows
\* it, and the process exits non-zero.
C4_UnhandledExitFatal ==
    /\ [][ (pc = "vm_run" /\ runs' = runs + 1 /\ ~RunCallFailed /\ Unhandled(run'))
             => /\ Len(dumps') = Len(dumps) + 1
                /\ dumps'[Len(dumps')].exit_reason = run'.exit_reason
                /\ stdout' = stdout
                /\ stdin_read' = stdin_read
                /\ stdin_eof' = stdin_eof
                /\ pc' = "execute_image_fail"
                /\ rc'["vm_run"] = -1 ]_vars
    /\ [][ Len(dumps) > 0 => (runs' = runs /\ dumps' = dumps) ]_vars
    /\ [](Len(dumps) > 0 /\ Done => ExitCode # 0)

\* a two-byte burst on the serial port was dumped and the process failed
C4_Witness ==
    /\ Done
    /\ Len(dumps) = 1
    /\ run.exit_reason = KVM_EXIT_IO
    /\ run.io.port = SERIAL_PORT
    /\ run.io.count = 2
    /\ ExitCode = EXIT_FAILURE

\* every step of setting up succeeded and the loop ended on end-of-file
CleanRun ==
    /\ InLog(Ok("mmap run"))
    /\ InLog(Ok("read image"))
    /\ InLog(Ok("KVM_SET_REGS"))
    /\ InLog(Ok("KVM_SET_SREGS"))
    /\ stdin_eof

ReadEntry(addr) ==
    IF /\ slots[1].userspace_addr = "page_table"
       /\ addr >= slots[1].guest_phys_addr
       /\ addr < slots[1].guest_phys_addr + slots[1].memory_size
    THEN page_table[(addr - slots[1].guest_phys_addr) \div 8]
    ELSE 0

RECURSIVE Walk(_, _, _)
Walk(table, addr, level) ==
    LET index == ((addr \div 4096) \div (512 ^ (level - 1))) % 512
        entry == ReadEntry(table + index * 8)
        present == entry % 2 = 1
        writable == (entry \div 2) % 2 = 1
        frame == entry - (entry % 4096)
    IN  IF ~(present /\ writable) THEN [ok |-> FALSE, frame |-> 0]
        ELSE IF level = 1 THEN [ok |-> TRUE, frame |-> frame]
        ELSE Walk(frame, addr, level - 1)

\* boot preparation built the tables itself and succeeded
AutoTables ==
    /\ pc = "vm_run"
    /\ options.mode = "VM_MODE_LONG"
    /\ options.page_table_is_set = 0

\* C6: in long mode without a preloaded table, for a memory size that is a
\* positive multiple of 4096, slot 1 lies at guest-physical memory_size and
\* the 4-level walk from CR3 of every address below memory_size finds a
\* present, writable entry at each level and ends at the address's own frame.
C6_PageTableCoverage ==
    (AutoTables /\ options.mem_size > 0 /\ options.mem_size % 4096 = 0) =>
        /\ slots[1].guest_phys_addr = options.mem_size
        /\ \A f \in 0..((options.mem_size \div 4096) - 1), off \in {0, 4095} :
              Walk(vcpu.sregs.cr3, f * 4096 + off, 4)
                  = [ok |-> TRUE, frame |-> f * 4096]

\* 513 pages are mapped, which takes two frames of leaf entries
C6_Witness ==
    /\ AutoTables
    /\ options.mem_size = 513 * 4096
    /\ Walk(vcpu.sregs.cr3, 512 * 4096, 4).ok

CeilDiv(a, b) == IF a % b = 0 THEN a \div b ELSE (a \div b) + 1

\* N(k, m): N0 = ceil(m / 4096), Nk = ceil(N(k-1) * 8 / 4096)
RECURSIVE N(_, _)
N(k, m) == IF k = 0 THEN CeilDiv(m, 4096) ELSE CeilDiv(N(k - 1, m) * 8, 4096)

\* the page-table mapping exists
TablesMapped == vm # NULL /\ vm.page_table # "MAP_FAILED"

\* the region has this many frames: its size, its contents and slot 1 agree
RegionFrames(n) ==
    /\ vm.page_table_size = n * 4096
    /\ Cardinality(DOMAIN page_table) * 8 = n * 4096
    /\ (slots[1].userspace_addr = "page_table" => slots[1].memory_size = n * 4096)

\* C7 as stated: the region has N0 + N1 + N2 + N3 frames.
C7_FramesAsStated ==
    TablesMapped =>
        RegionFrames(N(0, options.mem_size) + N(1, options.mem_size)
                     + N(2, options.mem_size) + N(3, options.mem_size))

\* C7, amended: N0 counts the leaf entries, not frames; the region has
\* N1 + N2 + N3 + N4 frames, one term for each of the four table levels, and
\* its byte size and the size registered for slot 1 are that count times 4096.
C7_FramesOfFourLevels ==
    TablesMapped =>
        RegionFrames(N(1, options.mem_size) + N(2, options.mem_size)
                     + N(3, options.mem_size) + N(4, options.mem_size))

\* 513 pages: two leaf frames and one frame for each level above
C7_Witness ==
    /\ TablesMapped
    /\ slots[1].userspace_addr = "page_table"
    /\ options.mem_size = 513 * 4096
    /\ vm.page_table_size = 5 * 4096

\* C8: after the builder ran, CR3 is memory_size + (frames - 1) * 4096, the
\* last frame of the region, and that frame is the start of the top-level
\* table: its entries point at the consecutive frames of the level below and
\* the rest of it is empty.
C8_Cr3AtRoot ==
    AutoTables =>
        LET m == options.mem_size
            frames == vm.page_table_size \div 4096
            cr3 == vcpu.sregs.cr3
            below == m + (N(1, m) + N(2, m)) * 4096
        IN  /\ cr3 = m + (frames - 1) * 4096
            /\ cr3 = m + (N(1, m) + N(2, m) + N(3, m)) * 4096
            /\ \A i \in 0..511 :
                  ReadEntry(cr3 + i * 8)
                      = IF i < N(3, m) THEN below + i * 4096 + 3 ELSE 0

\* the default 1 MiB of memory: four frames of tables, CR3 at the fourth
C8_Witness ==
    /\ AutoTables
    /\ options.mem_size = 1048576
    /\ vcpu.sregs.cr3 = 1048576 + 3 * 4096

\* the entry point is below 0x10000, below 2^32
Below64K(e) == e[2] = 0 /\ e[3] = 0 /\ e[4] = 0
Below4G(e) == e[3] = 0 /\ e[4] = 0

\* the mode guard rejects the entry point
Rejected(o) ==
    \/ o.mode = "VM_MODE_REAL" /\ ~Below64K(o.entry_point)
    \/ o.mode = "VM_MODE_PROTECTED" /\ ~Below4G(o.entry_point)

\* no call made in this step failed
StepCallsOk == \A i \in (Len(log) + 1)..Len(log') : log'[i].ok

\* C9: with an entry point at or above 0x10000 in real mode, or at or above
\* 2^32 in protected mode, boot preparation returns -1, KVM_RUN is never
\* invoked, neither register bank is written and the exit code is non-zero;
\* every other entry point (any in long mode) passes: when no kernel call
\* fails, boot preparation succeeds with rip at the entry point.
C9_ModeGuard ==
    /\ [][ (pc = "vm_prepare_to_boot" /\ Rejected(options))
             => /\ pc' = "execute_image_fail"
                /\ rc'["vm_prepare_to_boot"] = -1
                /\ vcpu' = vcpu ]_vars
    /\ [][ (pc = "vm_prepare_to_boot" /\ ~Rejected(options) /\ StepCallsOk)
             => /\ pc' = "vm_run"
                /\ rc'["vm_prepare_to_boot"] = 0
                /\ vcpu'.regs_set /\ vcpu'.sregs_set
                /\ vcpu'.regs.rip = options.entry_point ]_vars
    /\ []((pc # "main" /\ Rejected(options))
             => /\ runs = 0
                /\ pc # "vm_run"
                /\ \A i \in 1..Len(log) :
                      log[i].op \notin {"KVM_SET_REGS", "KVM_SET_SREGS", "KVM_RUN"}
                /\ (vcpu # NoVcpu => ~vcpu.regs_set /\ ~vcpu.sregs_set)
                /\ (Done => ExitCode # 0))

\* real mode with the entry point at 0x10000 got as far as the guard and failed
C9_Witness ==
    /\ Done
    /\ options.mode = "VM_MODE_REAL"
    /\ options.entry_point = << 0, 1, 0, 0 >>
    /\ Printed("Entry point too far for real mode")
    /\ ExitCode = EXIT_FAILURE

\* the command line has an unknown flag, a number strtoull does not take
\* whole, or no image argument
BadArguments ==
    \/ \E i \in 1..Len(argv.opts) :
          \/ argv.opts[i].opt = "?"
          \/ /\ argv.opts[i].opt \in {"m", "e", "p"}
             /\ argv.opts[i].arg.syntax # "number"
    \/ Len(argv.image) = 0

NoKernelInteraction ==
    /\ log = << >>
    /\ held = {}
    /\ vm = NULL
    /\ vcpu = NoVcpu
    /\ runs = 0

\* C10 as stated: each configuration error, the entry point out of range
\* among them, is rejected with the usage synopsis and no kernel interaction.
C10_AllRejectedUpFront ==
    (pc # "main" /\ (BadArguments \/ Rejected(options))) =>
        /\ NoKernelInteraction
        /\ (Done => Printed("Usage: blankvm") /\ ExitCode # 0)

\* C10, amended: a bad flag, an unparseable number and a missing image
\* argument end the program in main with the usage synopsis, a non-zero exit
\* code and no kernel or host call.  An entry point out of range is found
\* only in boot preparation, after the VM was created and the image loaded:
\* no usage synopsis is printed, a range message is printed when the
\* preceding calls succeeded, nothing is run, everything is released and the
\* exit code is non-zero.
C10_RejectedUpFrontOrAtBoot ==
    /\ (pc # "main" /\ BadArguments) =>
          /\ Done
          /\ NoKernelInteraction
          /\ stderr = << "Usage: blankvm" >>
          /\ ExitCode = EXIT_FAILURE
    /\ (pc # "main" /\ ~BadArguments /\ Rejected(options)) =>
          /\ ~Printed("Usage: blankvm")
          /\ runs = 0
          /\ (Done => /\ ExitCode # 0
                      /\ log # << >>
                      /\ held = {})
          /\ ((Done /\ \A i \in 1..Len(log) : log[i].ok) =>
                /\ InLog(Ok("open /dev/kvm"))
                /\ InLog(Ok("mmap mem"))
                /\ InLog(Ok("KVM_CREATE_VCPU"))
                /\ InLog(Ok("read image"))
                /\ \/ Printed("Entry point too far for real mode")
                   \/ Printed("Entry point too far for protected mode"))

\* protected mode with the entry point at 2^32: the VM was created, the image
\* loaded, and the guard failed the boot
C10_Witness ==
    /\ Done
    /\ ~BadArguments
    /\ options.mode = "VM_MODE_PROTECTED"
    /\ options.entry_point = << 0, 0, 1, 0 >>
    /\ InLog(Ok("read image"))
    /\ Printed("Entry point too far for protected mode")
    /\ ExitCode = EXIT_FAILURE

(***************************************************************************)
(* Register programming.                                                   *)
(***************************************************************************)
\* vm_prepare_to_boot returned 0: both register banks were written
BootPrepared ==
    /\ HasReturned("vm_prepare_to_boot")
    /\ rc["vm_prepare_to_boot"] = 0

\* the step in which vm_prepare_to_boot returns 0
BootPreparedNow == pc = "vm_prepare_to_boot" /\ pc' = "vm_run"

ProgrammedSegs == {"cs", "ds", "es", "fs", "gs", "ss"}

\* C11: after successful boot preparation each of CS, DS, ES, FS, GS, SS has
\* base 0; selector 0 in real mode, otherwise 8 for CS and 16 for the data
\* segments; limit 0xFFFF in real mode and 0xFFFFFFFF otherwise; type 0x0B for
\* CS and 0x03 for the others; DB = 1 exactly in protected mode; L = 1 exactly
\* in long mode; G = 0 in real mode and 1 otherwise.
C11_SegmentProgramming ==
    BootPrepared =>
        \A n \in ProgrammedSegs :
            LET seg == vcpu.sregs.seg[n]
                real == options.mode = "VM_MODE_REAL"
            IN  /\ seg.base = << 0, 0, 0, 0 >>
                /\ seg.selector = (IF real THEN 0 ELSE IF n = "cs" THEN 8 ELSE 16)
                /\ seg.limit = (IF real THEN << 65535, 0, 0, 0 >>
                                ELSE << 65535, 65535, 0, 0 >>)
                /\ seg.type = (IF n = "cs" THEN 11 ELSE 3)
                /\ (seg.db = 1 <=> options.mode = "VM_MODE_PROTECTED")
                /\ seg.db \in {0, 1}
                /\ (seg.l = 1 <=> options.mode = "VM_MODE_LONG")
                /\ seg.l \in {0, 1}
                /\ seg.g = (IF real THEN 0 ELSE 1)

\* long mode was prepared on a kernel state whose segments had DB and G set
C11_Witness ==
    /\ BootPrepared
    /\ options.mode = "VM_MODE_LONG"
    /\ vcpu.sregs.seg["ss"].dpl = 3
    /\ vcpu.sregs.seg["ss"].db = 0
    /\ vcpu.sregs.seg["cs"].selector = 8

\* C12: the control registers are programmed additively from what the kernel
\* returned: real mode changes none of CR0, CR3, CR4, EFER; protected mode adds
\* bit 0 to CR0 and nothing else; long mode adds bits 0 and 31 to CR0, bit 5 to
\* CR4, bits 8 and 10 to EFER and sets CR3 to the page-table root (the supplied
\* address, or the last frame of the region the builder registered); so every
\* bit set before stays set and no other bit is newly set.
C12_ControlRegisters ==
    [][ BootPreparedNow =>
          LET old == vcpu.sregs
              new == vcpu'.sregs
              mode == options.mode
              root == IF options.page_table_is_set # 0 THEN options.page_table
                      ELSE slots'[1].guest_phys_addr + slots'[1].memory_size - 4096
          IN  /\ new.cr0 = old.cr0 \cup (IF mode = "VM_MODE_REAL" THEN {}
                                         ELSE IF mode = "VM_MODE_PROTECTED" THEN {0}
                                         ELSE {0, 31})
              /\ new.cr4 = old.cr4 \cup (IF mode = "VM_MODE_LONG" THEN {5} ELSE {})
              /\ new.efer = old.efer \cup (IF mode = "VM_MODE_LONG" THEN {8, 10}
                                           ELSE {})
              /\ new.cr3 = (IF mode = "VM_MODE_LONG" THEN root ELSE old.cr3) ]_vars

\* long mode on a kernel state that had other bits set: they are all still set
C12_Witness ==
    /\ BootPrepared
    /\ options.mode = "VM_MODE_LONG"
    /\ vcpu.sregs.cr0 = {0, 4, 5, 31}
    /\ vcpu.sregs.cr4 = {5, 9, 13}
    /\ vcpu.sregs.efer = {0, 8, 10, 11}

\* vm_fill_page_table was called: its first call is the mmap of the region
BuilderInvoked == \E i \in 1..Len(log) : log[i].op = "mmap page table"

\* no trace of a page table: no mapping, no slot 1, nothing to release
NoPageTable ==
    /\ ~BuilderInvoked
    /\ \A i \in 1..Len(log) :
          log[i].op \notin {"KVM_SET_USER_MEMORY_REGION page table",
                            "munmap page table"}
    /\ slots[1].userspace_addr = "none"
    /\ slots[1].memory_size = 0
    /\ page_table = << >>
    /\ "page_table" \notin held
    /\ (vm # NULL => vm.page_table = "MAP_FAILED" /\ vm.page_table_size = 0)

\* C13: the page-table builder runs exactly when the mode is long and no
\* page-table address was supplied; then, when boot preparation succeeds, the
\* region is mapped and registered as slot 1 at guest-physical memory_size.
\* In long mode with a supplied address nothing is built, no slot 1 and no
\* mapping exist and CR3 is the supplied address.  In real and protected mode
\* nothing is built and CR3 stays as the kernel returned it, with or without
\* a supplied address.
C13_BuilderIff ==
    /\ [](BuilderInvoked =>
             options.mode = "VM_MODE_LONG" /\ options.page_table_is_set = 0)
    /\ []((/\ options.mode = "VM_MODE_LONG"
           /\ options.page_table_is_set = 0
           /\ HasReturned("vm_prepare_to_boot")
           /\ InLog(Ok("KVM_GET_SREGS"))) => BuilderInvoked)
    /\ []((/\ BootPrepared
           /\ options.mode = "VM_MODE_LONG"
           /\ options.page_table_is_set = 0)
             => /\ InLog(Ok("mmap page table"))
                /\ InLog(Ok("KVM_SET_USER_MEMORY_REGION page table"))
                /\ vm.page_table = "page_table"
                /\ Cardinality(DOMAIN page_table) * 8 = vm.page_table_size
                /\ slots[1] = [ guest_phys_addr |-> options.mem_size,
                                memory_size |-> vm.page_table_size,
                                userspace_addr |-> "page_table" ])
    /\ []((pc # "main" /\ ~(options.mode = "VM_MODE_LONG"
                            /\ options.page_table_is_set = 0)) => NoPageTable)
    /\ []((/\ BootPrepared
           /\ options.mode = "VM_MODE_LONG"
           /\ options.page_table_is_set = 1)
             => vcpu.sregs.cr3 = options.page_table)
    /\ [][ (BootPreparedNow /\ options.mode # "VM_MODE_LONG")
             => vcpu'.sregs.cr3 = vcpu.sregs.cr3 ]_vars

\* protected mode with -p: CR3 still holds what the kernel had, not the address
C13_Witness ==
    /\ BootPrepared
    /\ options.mode = "VM_MODE_PROTECTED"
    /\ options.page_table_is_set = 1
    /\ options.page_table = 4096
    /\ vcpu.sregs.cr3 = 8192
    /\ NoPageTable

(***************************************************************************)
(* Acquisition and release, read off the log of calls.                     *)
(***************************************************************************)
\* the resource a successful call acquires, the resource a call releases
ResourceAcquired(op) ==
    CASE op = "malloc" -> "state"
      [] op = "open /dev/kvm" -> "kvm"
      [] op = "KVM_CREATE_VM" -> "vm"
      [] op = "mmap mem" -> "mem"
      [] op = "KVM_CREATE_VCPU" -> "cpu"
      [] op = "mmap run" -> "run"
      [] op = "mmap page table" -> "page_table"
      [] op = "open image" -> "image"
      [] OTHER -> "none"

ResourceReleased(op) ==
    CASE op = "free" -> "state"
      [] op = "close kvm" -> "kvm"
      [] op = "close vm" -> "vm"
      [] op = "munmap mem" -> "mem"
      [] op = "close cpu" -> "cpu"
      [] op = "munmap run" -> "run"
      [] op = "munmap page table" -> "page_table"
      [] op = "close image" -> "image"
      [] OTHER -> "none"

\* the log read as a ledger from entry i on: what is live, what was ever
\* acquired, what was ever released, and whether every acquisition was a
\* first one and every release gave back something live
RECURSIVE Ledger(_, _, _, _, _)
Ledger(i, live, acquired, released, sound) ==
    IF i > Len(log)
    THEN [live |-> live, acquired |-> acquired, released |-> released,
          sound |-> sound]
    ELSE LET a == IF log[i].ok THEN ResourceAcquired(log[i].op) ELSE "none"
             r == ResourceReleased(log[i].op)
         IN  IF a # "none"
             THEN Ledger(i + 1, live \cup {a}, acquired \cup {a}, released,
                         sound /\ a \notin acquired)
             ELSE IF r # "none"
             THEN Ledger(i + 1, live \ {r}, acquired, released \cup {r},
                         sound /\ r \in live)
             ELSE Ledger(i + 1, live, acquired, released, sound)

\* the place of a release in the teardown the claim describes; 0 for a call
\* that is none of the six releases
TeardownRank(op) ==
    CASE op = "munmap run" -> 1
      [] op = "close cpu" -> 2
      [] op = "close vm" -> 3
      [] op = "close kvm" -> 4
      [] op = "munmap mem" -> 5
      [] op = "munmap page table" -> 6
      [] OTHER -> 0

\* the same number for the call that acquires what the release gives back
AcquireRank(op) ==
    CASE op = "mmap run" -> 1
      [] op = "KVM_CREATE_VCPU" -> 2
      [] op = "KVM_CREATE_VM" -> 3
      [] op = "open /dev/kvm" -> 4
      [] op = "mmap mem" -> 5
      [] op = "mmap page table" -> 6
      [] OTHER -> 0

\* the ranks of the teardown releases in the log, in the order of the log
RECURSIVE ReleaseRanks(_)
ReleaseRanks(i) ==
    IF i > Len(log) THEN << >>
    ELSE (IF TeardownRank(log[i].op) = 0 THEN << >>
          ELSE << TeardownRank(log[i].op) >>) \o ReleaseRanks(i + 1)

\* the ranks of what was acquired, as a set
AcquiredRanks ==
    { AcquireRank(log[i].op) : i \in { j \in 1..Len(log) : log[j].ok } } \ {0}

Increasing(ranks) == \A i \in 1..(Len(ranks) - 1) : ranks[i] < ranks[i + 1]

Range(seq) == { seq[i] : i \in 1..Len(seq) }

\* C14: on every exit path that created the VM state, what was acquired is
\* released in the order run-state mapping, vCPU handle, VM handle, device
\* handle, RAM mapping, page-table mapping; what was never acquired is
\* skipped and the rest keeps its order.
C14_TeardownOrder ==
    LET ranks == ReleaseRanks(1)
    IN  /\ Increasing(ranks)
        /\ Range(ranks) \subseteq AcquiredRanks
        /\ (Done => Range(ranks) = AcquiredRanks)

\* all six were acquired and released, the page-table mapping last
C14_Witness ==
    /\ Done
    /\ ReleaseRanks(1) = << 1, 2, 3, 4, 5, 6 >>

\* the ranks of the successful acquisitions in the log, in the order of the log
RECURSIVE AcquireRanks(_)
AcquireRanks(i) ==
    IF i > Len(log) THEN << >>
    ELSE (IF log[i].ok /\ AcquireRank(log[i].op) # 0
          THEN << AcquireRank(log[i].op) >> ELSE << >>) \o AcquireRanks(i + 1)

Reverse(seq) == [ i \in 1..Len(seq) |-> seq[Len(seq) + 1 - i] ]

Only(seq, keep) == SelectSeq(seq, LAMBDA x : x \in keep)

\* C15 as stated: the device handle, the RAM mapping, the run-state mapping
\* and the page-table mapping are released in the exact reverse of the order
\* of their acquisition, and nothing is released after the device handle.
C15_StrictReverse ==
    Done =>
        LET released == ReleaseRanks(1)
            acquired == AcquireRanks(1)
        IN  /\ Only(released, {1, 4, 5, 6}) = Reverse(Only(acquired, {1, 4, 5, 6}))
            /\ Range(released) = Range(acquired)
            /\ (4 \in Range(released) => released[Len(released)] = 4)

\* C15, amended: on every exit path the run-state mapping and the three
\* handles are released in the reverse of the order of their acquisition
\* (run-state mapping, vCPU, VM, device); the RAM mapping and the page-table
\* mapping are released after the device handle is closed, in that order.
\* When the device handle is closed the run-state mapping, the vCPU handle and
\* the VM handle have been released, and the two mappings, where acquired,
\* have not.
C15_HandlesReverseMappingsAfter ==
    Done =>
        LET released == ReleaseRanks(1)
            acquired == AcquireRanks(1)
            handles == {1, 2, 3, 4}
            closed == { i \in 1..Len(released) : released[i] = 4 }
        IN  /\ Only(released, handles) = Reverse(Only(acquired, handles))
            /\ Range(released) = Range(acquired)
            /\ \A k \in closed :
                  /\ { released[i] : i \in 1..(k - 1) } = Range(acquired) \cap {1, 2, 3}
                  /\ SubSeq(released, k + 1, Len(released))
                        = Only(<< 5, 6 >>, Range(acquired))

\* a guest fault after a full setup in long mode: both mappings were released
\* after the device handle
C15_Witness ==
    /\ Done
    /\ Len(dumps) = 1
    /\ AcquireRanks(1) = << 4, 3, 5, 2, 1, 6 >>
    /\ ReleaseRanks(1) = << 1, 2, 3, 4, 5, 6 >>

\* C16: on every path through execute_image each of the device handle, the VM
\* handle, the vCPU handle, the three mappings, the image descriptor and the
\* state record is acquired at most once, is released only while it is held,
\* so at most once and never without having been acquired, and has been
\* released when the process exits; what the process holds is what the log
\* says it acquired and has not released.
C16_NoLeakNoDoubleRelease ==
    LET ledger == Ledger(1, {}, {}, {}, TRUE)
    IN  /\ ledger.sound
        /\ held = ledger.live \ {"image"}
        /\ (Done => ledger.live = {} /\ ledger.released = ledger.acquired)

\* slot 1 was refused after the page-table region had been mapped: the region
\* was unmapped with the rest, and the image descriptor had been closed
C16_Witness ==
    /\ Done
    /\ InLog(Failed("KVM_SET_USER_MEMORY_REGION page table"))
    /\ Ledger(1, {}, {}, {}, TRUE).released
          = {"state", "kvm", "vm", "mem", "cpu", "run", "page_table", "image"}

(***************************************************************************)
(* Image loading.                                                          *)
(***************************************************************************)
\* byte i of guest RAM: slot 0 is the RAM mapping at guest-physical 0
GuestByte(i) == IF i < mem.from_file THEN FileByte(argv.image[1], i) ELSE 0

ImageLoaded ==
    /\ HasReturned("vm_load_image")
    /\ rc["vm_load_image"] = 0

\* C17: after image loading succeeds, guest bytes [0, image_length) equal the
\* file's bytes, image_length being the file length capped at memory_size, and
\* guest bytes [image_length, memory_size) are zero; nothing outside
\* [0, memory_size) is written.  Bytes are compared at both ends of memory, at
\* both sides of image_length and at both sides of the end of what was read.
C17_ImagePlacement ==
    ImageLoaded =>
        LET path == argv.image[1]
            image_length == Min(FileOf(path).length, vm.mem_size)
            probes == { 0, image_length - 1, image_length, vm.mem_size - 1,
                        mem.from_file - 1, mem.from_file }
        IN  /\ mem.from_file <= vm.mem_size
            /\ \A i \in probes :
                  (i >= 0 /\ i < vm.mem_size) =>
                      GuestByte(i) = IF i < image_length THEN FileByte(path, i) ELSE 0

(***************************************************************************)
(* Order of startup.                                                       *)
(***************************************************************************)
\* the calls of a complete setup, in order, for the options given
SetupCalls ==
       << "malloc", "open /dev/kvm", "KVM_CREATE_VM", "mmap mem",
          "KVM_SET_USER_MEMORY_REGION", "KVM_CREATE_VCPU",
          "KVM_GET_VCPU_MMAP_SIZE", "mmap run",
          "open image", "read image", "close image",
          "KVM_GET_REGS", "KVM_GET_SREGS" >>
    \o (IF options.mode = "VM_MODE_LONG" /\ options.page_table_is_set = 0
        THEN << "mmap page table", "KVM_SET_USER_MEMORY_REGION page table" >>
        ELSE << >>)
    \o << "KVM_SET_REGS", "KVM_SET_SREGS" >>

\* a call of the setup failed
SetupCallFailed ==
    \E i \in 1..Min(Len(log), Len(SetupCalls)) : ~log[i].ok

\* C18: KVM_RUN is invoked only after VM creation, image open and read, the
\* reads of both register banks, page-table construction and slot-1
\* registration (long mode without supplied tables) and the writes of both
\* register banks have all succeeded, in that order; when one of them fails,
\* an image open or read error among them, the process ends with a message,
\* a non-zero exit code and no run invocation.
C18_RunAfterSetup ==
    /\ (runs > 0 \/ pc = "vm_run") =>
          /\ Len(log) >= Len(SetupCalls)
          /\ \A i \in 1..Len(SetupCalls) : log[i] = [op |-> SetupCalls[i], ok |-> TRUE]
          /\ vcpu.regs_set /\ vcpu.sregs_set
          /\ (Len(SetupCalls) = 17 => slots[1].userspace_addr = "page_table")
    /\ SetupCallFailed =>
          /\ runs = 0
          /\ pc # "vm_run"
          /\ Len(stderr) > 0
          /\ (Done => ExitCode # 0 /\ held = {})
    /\ (InLog(Failed("open image")) \/ InLog(Failed("read image"))) =>
          /\ SetupCallFailed
          /\ \/ Printed("perror open image")
             \/ Printed("perror read image")

\* the guest was entered in long mode after all seventeen calls of the setup
C18_Witness ==
    /\ runs > 0
    /\ Len(SetupCalls) = 17
    /\ log[17] = [op |-> "KVM_SET_SREGS", ok |-> TRUE]

(***************************************************************************)
(* Layout of the page-table region.                                        *)
(***************************************************************************)
\* frames of the region that precede the tables of level k (k = 1 for leaves)
RECURSIVE FramesBefore(_, _)
FramesBefore(k, m) == IF k = 1 THEN 0 ELSE FramesBefore(k - 1, m) + N(k - 1, m)

\* the level whose tables hold frame f of the region
LevelOfFrame(f, m) ==
    CHOOSE k \in 1..4 : FramesBefore(k, m) <= f /\ f < FramesBefore(k, m) + N(k, m)

\* what entry e of the region must hold
ExpectedEntry(e, m) ==
    LET k == LevelOfFrame(e \div 512, m)
        i == e - FramesBefore(k, m) * 512
        below == IF k = 1 THEN 0 ELSE m + FramesBefore(k - 1, m) * 4096
    IN  IF i < N(k - 1, m) THEN below + i * 4096 + 3 ELSE 0

\* C19: for memory_size a multiple of 4096 the region holds the tables in
\* ascending levels; leaf entry i, for i below the number of pages, is
\* i * 4096 + 3; entry i of a table of a higher level is the guest-physical
\* start of the tables one level below plus i * 4096, plus 3; every other
\* entry is zero, so every entry is zero or has exactly 0x003 in its low 12
\* bits; and no leaf entry maps a frame at or above memory_size.
C19_EntryLayout ==
    (TablesMapped /\ options.mem_size % 4096 = 0) =>
        LET m == options.mem_size
        IN  /\ \A e \in DOMAIN page_table :
                  /\ page_table[e] = ExpectedEntry(e, m)
                  /\ (page_table[e] = 0 \/ page_table[e] % 4096 = 3)
            /\ \A e \in 0..(N(1, m) * 512 - 1) :
                  page_table[e] # 0 => page_table[e] - 3 < m

\* 1025 pages: three leaf frames, and the first entry of the level above
\* points at the start of the region
C19_Witness ==
    /\ TablesMapped
    /\ options.mem_size = 1025 * 4096
    /\ page_table[1024] = 1024 * 4096 + 3
    /\ page_table[1025] = 0
    /\ page_table[3 * 512] = 1025 * 4096 + 3

(***************************************************************************)
(* What boot preparation leaves alone.                                     *)
(***************************************************************************)
UntouchedSregs ==
    {"gdt", "idt", "cr2", "cr8", "apic_base", "interrupt_bitmap"}

UntouchedSegFields == {"present", "dpl", "s", "avl"}

\* C20: in every mode the instruction pointer written to the vCPU is the
\* entry point and every other general register and the flags are written as
\* read; TR, LDT, GDT, IDT, CR2, CR8, the APIC base and the interrupt bitmap
\* are written as read, and so are the present, DPL, S and AVL fields of the
\* six programmed segments; a bank that is not written keeps its value.
C20_BootFrame ==
    [][ pc = "vm_prepare_to_boot" =>
          /\ IF vcpu'.regs_set
             THEN /\ vcpu'.regs.rip = options.entry_point
                  /\ \A f \in DOMAIN vcpu.regs \ {"rip"} :
                        vcpu'.regs[f] = vcpu.regs[f]
                  /\ DOMAIN vcpu'.regs = DOMAIN vcpu.regs
             ELSE vcpu'.regs = vcpu.regs
          /\ IF vcpu'.sregs_set
             THEN /\ \A f \in UntouchedSregs : vcpu'.sregs[f] = vcpu.sregs[f]
                  /\ vcpu'.sregs.seg["tr"] = vcpu.sregs.seg["tr"]
                  /\ vcpu'.sregs.seg["ldt"] = vcpu.sregs.seg["ldt"]
                  /\ \A n \in ProgrammedSegs, f \in UntouchedSegFields :
                        vcpu'.sregs.seg[n][f] = vcpu.sregs.seg[n][f]
             ELSE vcpu'.sregs = vcpu.sregs ]_vars

\* protected mode at entry point 0xFFFFFFFF on a kernel state with values of
\* its own in rax, the flags, CR2 and the segments' DPL and AVL
C20_Witness ==
    /\ BootPrepared
    /\ options.mode = "VM_MODE_PROTECTED"
    /\ vcpu.regs.rip = << 65535, 65535, 0, 0 >>
    /\ vcpu.regs.rax = 7
    /\ vcpu.regs.rflags = 514
    /\ vcpu.sregs.cr2 = 7
    /\ vcpu.sregs.seg["ds"].dpl = 3
    /\ vcpu.sregs.seg["ds"].avl = 1

(***************************************************************************)
(* Errors of the run operation, and the diagnostics.                       *)
(***************************************************************************)
\* C21: when KVM_RUN itself returns an error, that iteration ends the loop
\* with vm_run returning -1: the exit is not dispatched, so nothing is
\* dumped, no byte is read from standard input or written to standard output
\* and the payload is untouched; KVM_RUN is not invoked again; and the
\* process exits non-zero with everything released.
C21_RunErrorFatal ==
    /\ [][ (pc = "vm_run" /\ RunCallFailed)
             => /\ pc' = "execute_image_fail"
                /\ rc'["vm_run"] = -1
                /\ stderr' = Append(stderr, "perror KVM_RUN")
                /\ dumps' = dumps
                /\ run' = run
                /\ stdout' = stdout
                /\ stdin_read' = stdin_read
                /\ stdin_eof' = stdin_eof ]_vars
    /\ [][ InLog(Failed("KVM_RUN"))
             => /\ runs' = runs
                /\ dumps' = dumps
                /\ stdout' = stdout
                /\ stdin_read' = stdin_read ]_vars
    /\ [](InLog(Failed("KVM_RUN")) /\ Done
             => /\ ExitCode # 0
                /\ held = {}
                /\ log[Len(log)] = [op |-> "free", ok |-> TRUE])

\* the third KVM_RUN failed after an OUT and an IN had been served
C21_Witness ==
    /\ Done
    /\ InLog(Failed("KVM_RUN"))
    /\ runs = 3
    /\ Len(stdout) = 1
    /\ Len(stdin_read) = 1
    /\ ExitCode = EXIT_FAILURE


\* the name table as a set
TableNames == { exit_reasons[i] : i \in 1..Len(exit_reasons) }

\* C22: every dump prints the number of the exit reason together with a
\* name: the table's entry at that index (counted from 0) when the number is
\* below the table's 28 entries, and "UNKNOWN", which is no entry of the
\* table, for every other number; the table is consulted only at indexes
\* below its length.
C22_ExitReasonNaming ==
    /\ Len(exit_reasons) = 28
    /\ "UNKNOWN" \notin TableNames
    /\ \A i \in 1..Len(dumps) :
          LET d == dumps[i]
              index == d.exit_reason
          IN  /\ index >= 0
              /\ index < 28 => /\ index + 1 \in DOMAIN exit_reasons
                               /\ d.name = exit_reasons[index + 1]
              /\ index >= 28 => d.name = "UNKNOWN"
              /\ index = KVM_EXIT_IO => d.name = "KVM_EXIT_IO"
              /\ index = KVM_EXIT_MMIO => d.name = "KVM_EXIT_MMIO"
              /\ Printed("Exit reason: " \o ToString(index) \o " (" \o d.name \o ")")

\* the first code past the table was dumped
C22_Witness ==
    /\ Len(dumps) = 1
    /\ dumps[1].exit_reason = Len(exit_reasons)
    /\ dumps[1].name = "UNKNOWN"
    /\ Printed("Exit reason: 28 (UNKNOWN)")
    /\ Done

\* the lines of a dump that report the two register reads
RegsLine(ok) == IF ok THEN "RAX.. RIP RFL" ELSE "perror KVM_GET_REGS"
SregsLine(ok) == IF ok THEN "CS.. CR0.. INT BITMAP" ELSE "perror KVM_GET_SREGS"

\* C23: a dump is best effort.  Whatever the outcomes of its two register
\* reads, both reads are attempted, the general registers first; each is
\* printed when it succeeded and noted with an error line when it failed; the
\* dump runs to its end marker; and the run loop still ends with failure, so
\* that the process exits non-zero.
C23_DumpBestEffort ==
    Len(dumps) > 0 =>
        LET d == dumps[Len(dumps)]
            n == Len(stderr)
            k == Len(log) - (IF pc = "execute_image_fail" THEN 0
                              ELSE Len(vm_free_calls(vm)))
        IN  /\ Len(dumps) = 1
            /\ n >= 5
            /\ stderr[n] = "===== END VM STATE ====="
            /\ stderr[n - 1] = SregsLine(d.sregs_ok)
            /\ stderr[n - 2] = RegsLine(d.regs_ok)
            /\ \E b \in 1..(n - 4) :
                  /\ stderr[b] = "===== BEGIN VM STATE ====="
                  /\ stderr[b + 1] = "Exit reason: " \o ToString(d.exit_reason)
                                        \o " (" \o d.name \o ")"
            /\ k >= 2
            /\ log[k - 1] = Call("KVM_GET_REGS", d.regs_ok)
            /\ log[k] = Call("KVM_GET_SREGS", d.sregs_ok)
            /\ pc \in {"execute_image_fail", "main_return", "done"}
            /\ rc["vm_run"] = -1
            /\ Done => ExitCode = EXIT_FAILURE /\ held = {}

\* the general registers could not be read, the system registers could
C23_Witness ==
    /\ Done
    /\ Len(dumps) = 1
    /\ ~dumps[1].regs_ok
    /\ dumps[1].sregs_ok
    /\ Printed("perror KVM_GET_REGS")
    /\ Printed("CS.. CR0.. INT BITMAP")
    /\ ExitCode = EXIT_FAILURE


(***************************************************************************)
(* Input bytes of every value.                                             *)
(***************************************************************************)
\* the step reads a byte from standard input
ByteRead == Len(stdin_read') = Len(stdin_read) + 1

\* C24: a byte of any value 0x00..0xFF that a serviced IN reads from standard
\* input is in the payload, unchanged, when the guest is entered again, and
\* the loop goes on with the next KVM_RUN; the guest receives exactly the
\* bytes that were read, and a guest that echoes them puts the same bytes on
\* standard output.  The loop is left with vm_run returning 0 only when
\* getchar reported end-of-file; a byte 0xFF is a byte like any other.
C24_AllBytesDelivered ==
    /\ [][ (pc = "vm_run" /\ ByteRead)
             => LET byte == stdin_read'[Len(stdin_read')]
                IN  /\ byte \in 0..255
                    /\ run'.data = byte
                    /\ pc' = "vm_run"
                    /\ rc' = rc
                    /\ ~stdin_eof'
                    /\ stdout' = stdout ]_vars
    /\ [][ (pc = "vm_run" /\ pc' = "execute_image_ok")
             => /\ stdin_eof'
                /\ ~ByteRead
                /\ run'.data = run.data ]_vars
    /\ [](/\ \A k \in 1..Len(guest_in) :
                guest_in[k] \in 0..255 /\ guest_in[k] = stdin_read[k]
          /\ Len(stdin_read) <= Len(guest_in) + 1
          /\ argv.image = << "echo" >>
                => /\ Len(stdout) <= Len(guest_in)
                   /\ \A k \in 1..Len(stdout) : stdout[k] = stdin_read[k])

\* the guest received the byte 0xFF, echoed it, and the loop goes on
C24_Witness ==
    /\ argv.image = << "echo" >>
    /\ stdin_read = << 255 >>
    /\ guest_in = << 255 >>
    /\ stdout = << 255 >>
    /\ pc = "vm_run"
    /\ ~stdin_eof

====
